---- MODULE Spec2Model ----
\* A model of the ksg Frame layout/composition engine (src/src/Frame.cpp,
\* src/inc/ksg/Frame.hpp): the WidgetAdder builder, the commit of a widget
\* list, the geometry finalize (auto-resize, spacer widths, positioning,
\* recursion into child frames, focus list) and event dispatch.
\*
\* Lengths are exact rationals: one pixel is Scale model units, and Scale is
\* divisible by every spacer count that can occur on a line, so the float
\* division of Frame::set_horz_spacer_widths is exact in the model.
EXTENDS Integers, Sequences, FiniteSets, TLC

\* ---------------------------------------------------------------- bounds
\* number of calls (begin_adding_widgets, add..., the adder's end of scope)
\* of one run of Spec
MaxCalls == 6
\* longest widget list LayoutInit draws for the outer frame
MaxLen == 3

\* ---------------------------------------------------------------- universe
Frames == {"F1", "F2"}
Leaves == {"W1", "W2", "W3", "W4"}
\* the leaves that derive from FocusWidget (dynamic_cast at Frame.cpp:330)
FocusLeaves == {"W1", "W4"}

Max(a, b) == IF a >= b THEN a ELSE b
Min(a, b) == IF a <= b THEN a ELSE b

RECURSIVE Fact(_)
Fact(n) == IF n <= 1 THEN 1 ELSE n * Fact(n - 1)

\* model units per pixel
Scale == Fact(Max(MaxCalls, MaxLen))
px(n) == n * Scale

\* Frame::k_default_padding, in pixels
\* a local variable: With(e, LAMBDA v : body) is body with v = e
With(v, F(_)) == F(v)
k_default_padding == 5
\* the value of m_padding before set_style / set_padding
\* (styles::get_unset_value<float>()): never a valid padding
k_unset_padding == -1

\* ---------------------------------------------------------------- pointers
\* A Widget* of the widget list. Spacers are addressed by the buffer of the
\* vector that stores them and the slot in it.
LeafPtr(w)         == [k |-> "leaf",  id |-> w, buf |-> 0, i |-> 0]
FramePtr(f)        == [k |-> "frame", id |-> f, buf |-> 0, i |-> 0]
SepPtr(f)          == [k |-> "sep",   id |-> f, buf |-> 0, i |-> 0]
SpacerPtr(f, b, i) == [k |-> "sp",    id |-> f, buf |-> b, i |-> i]

\* no widget
NullPtr            == [k |-> "null",  id |-> "", buf |-> 0, i |-> 0]

WidgetPtr(t) == IF t \in Frames THEN FramePtr(t) ELSE LeafPtr(t)

\* std::vector<HorizontalSpacer>: its buffer, capacity and elements
EmptyVector == [buf |-> 0, cap |-> 0, elems |-> <<>>]
\* HorizontalSpacer(): no width, at the origin
NewSpacer == [x |-> 0, y |-> 0, w |-> 0]

\* a null style pointer, and a style map with or without the padding key
NoStyles == [present |-> FALSE, has_padding |-> FALSE, padding |-> 0]
StyleMap(has, p) == [present |-> TRUE, has_padding |-> has, padding |-> p]

\* ---------------------------------------------------------------- WidgetAdder
\* WidgetAdder() / WidgetAdder(Frame*, const StyleMap*, LineSeperator*)
NoAdder ==
    [open |-> FALSE, m_parent |-> "", m_the_line_sep |-> "",
     m_styles |-> NoStyles, m_widgets |-> <<>>, m_horz_spacers |-> EmptyVector]

WidgetAdder(frame_, styles_, sep_) ==
    [open |-> TRUE, m_parent |-> frame_, m_the_line_sep |-> sep_,
     m_styles |-> styles_, m_widgets |-> <<>>, m_horz_spacers |-> EmptyVector]

\* WidgetAdder::add
add(a, ptr) == [a EXCEPT !.m_widgets = Append(@, ptr)]

\* WidgetAdder::add_line_seperator
add_line_seperator(a) ==
    [a EXCEPT !.m_widgets = Append(@, SepPtr(a.m_the_line_sep))]

\* the revalidation loop of add_horizontal_spacer (Frame.cpp:103-110):
\* old_itr / new_itr walk the old and the new buffer in step
RECURSIVE revalidate(_, _, _, _, _, _)
revalidate(ws, i, owner, oldbuf, newbuf, itr) ==
    IF i > Len(ws) THEN ws
    ELSE IF ws[i] = SpacerPtr(owner, oldbuf, itr)
         THEN revalidate([ws EXCEPT ![i] = SpacerPtr(owner, newbuf, itr)],
                         i + 1, owner, oldbuf, newbuf, itr + 1)
         ELSE revalidate(ws, i + 1, owner, oldbuf, newbuf, itr)

\* a spacer added with the storage moved and the pointers of the list left
\* as they are
add_horizontal_spacer_no_revalidation(a) ==
    LET v     == a.m_horz_spacers
        full  == Len(v.elems) = v.cap /\ Len(v.elems) > 0
        moved == IF full
                 THEN [buf |-> v.buf + 1, cap |-> 1 + 2 * v.cap, elems |-> v.elems]
                 ELSE v
        grown == IF Len(moved.elems) = moved.cap
                 THEN [moved EXCEPT !.buf = @ + 1, !.cap = 1]
                 ELSE moved
        vec   == [grown EXCEPT !.elems = Append(@, NewSpacer)]
    IN [a EXCEPT !.m_horz_spacers = vec,
                 !.m_widgets = Append(a.m_widgets,
                                      SpacerPtr(a.m_parent, vec.buf, Len(vec.elems)))]

\* WidgetAdder::add_horizontal_spacer
add_horizontal_spacer(a) ==
    LET v     == a.m_horz_spacers
        full  == Len(v.elems) = v.cap /\ Len(v.elems) > 0
        \* reserve(1 + 2*capacity), copy, patch, swap
        moved == IF full
                 THEN [buf |-> v.buf + 1, cap |-> 1 + 2 * v.cap, elems |-> v.elems]
                 ELSE v
        ws    == IF full
                 THEN revalidate(a.m_widgets, 1, a.m_parent, v.buf, v.buf + 1, 1)
                 ELSE a.m_widgets
        \* push_back of an empty vector without capacity allocates
        grown == IF Len(moved.elems) = moved.cap
                 THEN [moved EXCEPT !.buf = @ + 1, !.cap = 1]
                 ELSE moved
        vec   == [grown EXCEPT !.elems = Append(@, NewSpacer)]
    IN [a EXCEPT !.m_horz_spacers = vec,
                 !.m_widgets = Append(ws, SpacerPtr(a.m_parent, vec.buf, Len(vec.elems)))]

\* ---------------------------------------------------------------- widgets
\* The program state the Frame methods read and write, as one record:
\*   m_widgets, m_horz_spacers, m_padding, m_border, m_focus_handler per
\*   frame, leaf (the geometry of the leaf widgets), error (the exception a
\*   call ended with), crash (unbounded recursion ended the process) and fin
\*   (the frames whose geometry finalize ran in this call).

\* FrameBorder::widget_start: the interior top-left corner
widget_start(b) == [x |-> b.x + b.bs, y |-> b.y + b.bs + b.th]
\* FrameBorder::width_available_for_widgets
width_available_for_widgets(b) == Max(b.w - 2 * b.bs, 0)
\* FrameBorder::title_width_accommodation
title_width_accommodation(b) == b.tw

\* Frame::is_horizontal_spacer
is_horizontal_spacer(st, f, ptr) ==
    LET v == st.m_horz_spacers[f]
    IN /\ Len(v.elems) > 0
       /\ ptr.k = "sp" /\ ptr.id = f /\ ptr.buf = v.buf
       /\ ~(ptr.i < 1 \/ ptr.i > Len(v.elems))

\* Frame::is_line_seperator
is_line_seperator(f, ptr) == ptr = SepPtr(f)

\* Widget::width / Widget::height of the widget a pointer refers to
WidthOf(st, ptr) ==
    CASE ptr.k = "leaf"  -> st.leaf[ptr.id].w
      [] ptr.k = "frame" -> st.m_border[ptr.id].w
      [] ptr.k = "sp"    -> st.m_horz_spacers[ptr.id].elems[ptr.i].w
      [] OTHER           -> 0

HeightOf(st, ptr) ==
    CASE ptr.k = "leaf"  -> st.leaf[ptr.id].h
      [] ptr.k = "frame" -> st.m_border[ptr.id].h
      [] OTHER           -> 0

\* Widget::location
LocationOf(st, ptr) ==
    CASE ptr.k = "leaf"  -> [x |-> st.leaf[ptr.id].x, y |-> st.leaf[ptr.id].y]
      [] ptr.k = "frame" -> [x |-> st.m_border[ptr.id].x, y |-> st.m_border[ptr.id].y]
      [] ptr.k = "sp"    -> [x |-> st.m_horz_spacers[ptr.id].elems[ptr.i].x,
                             y |-> st.m_horz_spacers[ptr.id].elems[ptr.i].y]
      [] OTHER           -> [x |-> 0, y |-> 0]

\* Widget::set_location (Frame::set_location moves the border only)
set_location(st, ptr, x, y) ==
    CASE ptr.k = "leaf"  -> [st EXCEPT !.leaf[ptr.id].x = x, !.leaf[ptr.id].y = y]
      [] ptr.k = "frame" -> [st EXCEPT !.m_border[ptr.id].x = x, !.m_border[ptr.id].y = y]
      [] ptr.k = "sp"    -> [st EXCEPT !.m_horz_spacers[ptr.id].elems[ptr.i].x = x,
                                       !.m_horz_spacers[ptr.id].elems[ptr.i].y = y]
      [] OTHER           -> st

\* Frame::set_size
set_size(st, f, w, h) == [st EXCEPT !.m_border[f].w = w, !.m_border[f].h = h]

\* Frame::get_widget_advance
get_widget_advance(st, f, ptr) ==
    LET is_special_widget == is_line_seperator(f, ptr) \/ is_horizontal_spacer(st, f, ptr)
    IN WidthOf(st, ptr) + (IF is_special_widget THEN 0 ELSE st.m_padding[f])

\* Frame::contains: "T", "F", or "X" when the recursion never returns
RECURSIVE contains(_, _, _, _)
RECURSIVE contains_from(_, _, _, _, _)
contains_from(mw, f, wptr, d, i) ==
    IF i > Len(mw[f]) THEN "F"
    ELSE LET widget == mw[f][i]
         IN IF widget = wptr THEN "T"
            ELSE With(IF widget.k = "frame"
                      THEN contains(mw, widget.id, wptr, d + 1)
                      ELSE "F",
                      LAMBDA r : IF r = "F" THEN contains_from(mw, f, wptr, d, i + 1)
                                 ELSE r)

contains(mw, f, wptr, d) ==
    IF d > Cardinality(Frames) THEN "X" ELSE contains_from(mw, f, wptr, d, 1)

\* Frame::set_style: the padding of the map or the default, then every child
RECURSIVE set_style(_, _, _, _)
RECURSIVE set_style_children(_, _, _, _, _)
set_style_children(st, f, smap, d, i) ==
    IF st.crash \/ i > Len(st.m_widgets[f]) THEN st
    ELSE LET ptr == st.m_widgets[f][i]
             s1  == IF ptr.k = "frame" THEN set_style(st, ptr.id, smap, d + 1) ELSE st
         IN set_style_children(s1, f, smap, d, i + 1)

set_style(st, f, smap, d) ==
    IF d > Cardinality(Frames) THEN [st EXCEPT !.crash = TRUE]
    ELSE set_style_children(
             [st EXCEPT !.m_padding[f] =
                 IF smap.has_padding THEN smap.padding ELSE px(k_default_padding)],
             f, smap, d, 1)

\* frame f takes a step of its geometry finalize or of its auto-resize, on
\* the widget ptr of its list if on any
Step(st, f, step, ptr) ==
    [st EXCEPT !.steps = Append(@, [by |-> f, step |-> step, ptr |-> ptr])]

\* Frame::compute_size_to_fit
RECURSIVE compute_size_to_fit(_, _)
RECURSIVE fit_loop(_, _, _, _)
fit_loop(st, f, i, acc) ==
    IF i > Len(st.m_widgets[f]) THEN acc
    ELSE LET widget_ptr == st.m_widgets[f][i]
             m_padding  == st.m_padding[f]
         IN IF is_horizontal_spacer(st, f, widget_ptr)
            THEN fit_loop(st, f, i + 1, [acc EXCEPT !.pad_fix = -m_padding])
            ELSE IF is_line_seperator(f, widget_ptr)
            THEN fit_loop(st, f, i + 1,
                     [total_width  |-> Max(acc.line_width, acc.total_width),
                      line_width   |-> 0,
                      total_height |-> acc.total_height + acc.line_height + m_padding,
                      line_height  |-> 0,
                      pad_fix      |-> 0])
            ELSE LET \* the local width of a zero-sized child frame is computed
                     \* too, and never read: line_width takes get_widget_advance
                     height == IF /\ WidthOf(st, widget_ptr) = 0
                                  /\ HeightOf(st, widget_ptr) = 0
                                  /\ widget_ptr.k = "frame"
                               THEN compute_size_to_fit(st, widget_ptr.id).y
                               ELSE HeightOf(st, widget_ptr)
                 IN fit_loop(st, f, i + 1,
                        [acc EXCEPT
                            !.line_width  = @ + get_widget_advance(st, f, widget_ptr) + acc.pad_fix,
                            !.line_height = Max(@, height),
                            !.pad_fix     = 0])

\* a fit size with the 3 * padding correction also for a frame with no widgets
compute_size_to_fit_always_corrected(st, f) ==
    With(fit_loop(st, f, 1,
             [total_width |-> 0, line_width |-> 0, total_height |-> 0,
              line_height |-> 0, pad_fix |-> 0]),
         LAMBDA acc :
             LET m_padding == st.m_padding[f]
                 b   == st.m_border[f]
                 w1  == IF acc.line_width # 0 THEN Max(acc.total_width, acc.line_width)
                                              ELSE acc.total_width
                 h1  == IF acc.line_width # 0
                        THEN acc.total_height + acc.line_height + m_padding
                        ELSE acc.total_height
                 h2  == h1 + (widget_start(b).y - b.y)
                 w2  == Max(w1, title_width_accommodation(b) + m_padding * 2)
             IN [x |-> w2 + m_padding * 3, y |-> h2 + m_padding * 3])

compute_size_to_fit(st, f) ==
    With(fit_loop(st, f, 1,
             [total_width |-> 0, line_width |-> 0, total_height |-> 0,
              line_height |-> 0, pad_fix |-> 0]),
         LAMBDA acc :
             LET m_padding == st.m_padding[f]
                 b   == st.m_border[f]
                 w1  == IF acc.line_width # 0 THEN Max(acc.total_width, acc.line_width)
                                              ELSE acc.total_width
                 h1  == IF acc.line_width # 0
                        THEN acc.total_height + acc.line_height + m_padding
                        ELSE acc.total_height
                 h2  == h1 + (widget_start(b).y - b.y)
                 w2  == Max(w1, title_width_accommodation(b) + m_padding * 2)
             IN IF Len(st.m_widgets[f]) # 0
                THEN [x |-> w2 + m_padding * 3, y |-> h2 + m_padding * 3]
                ELSE [x |-> w2, y |-> h2])

\* Frame::issue_auto_resize: the children first, then the frame itself
RECURSIVE issue_auto_resize(_, _, _)
RECURSIVE auto_resize_children(_, _, _, _)
auto_resize_children(st, f, d, i) ==
    IF st.crash \/ i > Len(st.m_widgets[f]) THEN st
    ELSE LET ptr == st.m_widgets[f][i]
         IN auto_resize_children(
                IF ptr.k = "frame"
                THEN issue_auto_resize(Step(st, f, "issue_auto_resize", ptr), ptr.id, d + 1)
                ELSE Step(st, f, "issue_auto_resize", ptr),
                f, d, i + 1)

\* the frame's own part of issue_auto_resize (Frame.cpp:429-432)
size_self(st, f) ==
    With(Step(st, f, "size_self", NullPtr),
         LAMBDA s1 :
             IF s1.m_border[f].w = 0 \/ s1.m_border[f].h = 0
             THEN With(compute_size_to_fit(s1, f),
                       LAMBDA size_ : set_size(s1, f, size_.x, size_.y))
             ELSE s1)

\* Frame::issue_auto_resize_for_frame: nothing in Frame; st.hook[f] is what
\* the class derived from Frame does in it. "unset_members" calls
\* set_size(0, 0) on the frames of the list, to have them sized anew.
NoHooks == [f \in Frames |-> "none"]
Hooks == {"none", "unset_members"}

RECURSIVE unset_members(_, _, _)
unset_members(st, f, i) ==
    IF i > Len(st.m_widgets[f]) THEN st
    ELSE unset_members(IF st.m_widgets[f][i].k = "frame"
                       THEN set_size(st, st.m_widgets[f][i].id, 0, 0)
                       ELSE st,
                       f, i + 1)

issue_auto_resize_for_frame(st, f) ==
    IF st.hook[f] = "unset_members" THEN unset_members(st, f, 1) ELSE st

\* an auto-resize in which the frame sizes itself before it asks its children
issue_auto_resize_self_first(st, f, d) ==
    IF d > Cardinality(Frames) THEN [st EXCEPT !.crash = TRUE]
    ELSE auto_resize_children(size_self(st, f), f, d, 1)

issue_auto_resize(st, f, d) ==
    IF d > Cardinality(Frames) THEN [st EXCEPT !.crash = TRUE]
    ELSE With(auto_resize_children(st, f, d, 1),
              LAMBDA s1 : IF s1.crash THEN s1
                          ELSE size_self(issue_auto_resize_for_frame(s1, f), f))

\* spacer widths that are the share of the leftover, the padding not taken off
set_horz_spacer_widths_whole_share(st, f, beg, end_, left_over_space, padding) ==
    LET slots == {st.m_widgets[f][j].i : j \in
                    {j \in beg .. (end_ - 1) : is_horizontal_spacer(st, f, st.m_widgets[f][j])}}
        horz_spacer_count == Cardinality(slots)
        width_per_spacer == Max(0, left_over_space \div horz_spacer_count)
    IN IF horz_spacer_count = 0 THEN st
       ELSE [st EXCEPT !.m_horz_spacers[f].elems =
                [k \in DOMAIN @ |-> IF k \in slots
                                    THEN [@[k] EXCEPT !.w = width_per_spacer]
                                    ELSE @[k]]]

\* Frame::set_horz_spacer_widths over the widgets beg .. end_ - 1
set_horz_spacer_widths(st, f, beg, end_, left_over_space, padding) ==
    LET slots == {st.m_widgets[f][j].i : j \in
                    {j \in beg .. (end_ - 1) : is_horizontal_spacer(st, f, st.m_widgets[f][j])}}
        horz_spacer_count ==
            Cardinality({j \in beg .. (end_ - 1) : is_horizontal_spacer(st, f, st.m_widgets[f][j])})
        width_per_spacer == Max(0, (left_over_space \div horz_spacer_count) - padding)
    IN IF horz_spacer_count = 0 THEN st
       ELSE [st EXCEPT !.m_horz_spacers[f].elems =
                [k \in DOMAIN @ |-> IF k \in slots
                                    THEN [@[k] EXCEPT !.w = width_per_spacer]
                                    ELSE @[k]]]

\* The lines Frame::update_horizontal_spacers closes, in order: for each call
\* of set_horz_spacer_widths its range beg .. end_ - 1 and the width x used on
\* that line; broke tells that the widget at beg opened the line by
\* overflowing the previous one or is a line seperator.
RECURSIVE spacer_lines(_, _, _, _, _, _, _)

\* a spacer pass in which a spacer takes no padding back
spacer_lines_no_pad_fix(st, f, itr, x, pad_fix, line_begin, broke) ==
    LET k_horz_space == width_available_for_widgets(st.m_border[f])
        end_         == Len(st.m_widgets[f]) + 1
    IN IF itr = end_
       THEN IF line_begin = end_ THEN <<>>
            ELSE <<[beg |-> line_begin, end_ |-> end_, x |-> x, broke |-> broke]>>
       ELSE LET widget_ptr == st.m_widgets[f][itr]
                horz_step  == get_widget_advance(st, f, widget_ptr)
            IN IF is_horizontal_spacer(st, f, widget_ptr)
               THEN spacer_lines(st, f, itr + 1, x, 0, line_begin, broke)
               ELSE IF x + horz_step > k_horz_space \/ is_line_seperator(f, widget_ptr)
               THEN <<[beg |-> line_begin, end_ |-> itr, x |-> x, broke |-> broke]>>
                    \o spacer_lines(st, f, itr + 1, 0 + horz_step, 0, itr, TRUE)
               ELSE spacer_lines(st, f, itr + 1, x + horz_step, 0, line_begin, broke)

spacer_lines(st, f, itr, x, pad_fix, line_begin, broke) ==
    LET k_horz_space == width_available_for_widgets(st.m_border[f])
        m_padding    == st.m_padding[f]
        end_         == Len(st.m_widgets[f]) + 1
    IN IF itr = end_
       THEN IF line_begin = end_ THEN <<>>
            ELSE <<[beg |-> line_begin, end_ |-> end_, x |-> x, broke |-> broke]>>
       ELSE LET widget_ptr == st.m_widgets[f][itr]
                horz_step  == get_widget_advance(st, f, widget_ptr)
            IN IF is_horizontal_spacer(st, f, widget_ptr)
               THEN spacer_lines(st, f, itr + 1, x + pad_fix, 0, line_begin, broke)
               ELSE IF x + horz_step > k_horz_space \/ is_line_seperator(f, widget_ptr)
               THEN <<[beg |-> line_begin, end_ |-> itr, x |-> x, broke |-> broke]>>
                    \o spacer_lines(st, f, itr + 1, 0 + horz_step, 0, itr, TRUE)
               ELSE spacer_lines(st, f, itr + 1, x + horz_step, -m_padding,
                                 line_begin, broke)

\* Frame::update_horizontal_spacers: the spacers of each line share what the
\* line leaves over
RECURSIVE spacers_loop(_, _, _, _)
spacers_loop(st, f, lines, n) ==
    IF n > Len(lines) THEN st
    ELSE spacers_loop(
             set_horz_spacer_widths(st, f, lines[n].beg, lines[n].end_,
                 Max(width_available_for_widgets(st.m_border[f]) - lines[n].x, 0),
                 st.m_padding[f]),
             f, lines, n + 1)

update_horizontal_spacers(st, f) ==
    spacers_loop(st, f, spacer_lines(st, f, 1, 0, 0, 1, FALSE), 1)

RECURSIVE place_loop(_, _, _, _, _, _, _, _, _)

\* a positioning loop that places a line seperator like any widget and goes
\* on in the same line
place_loop_seperator_in_line(st, f, i, start_x, k_right_limit, x, y, line_height, pad_fix) ==
    IF i > Len(st.m_widgets[f]) THEN st
    ELSE LET widget_ptr == st.m_widgets[f][i]
             m_padding  == st.m_padding[f]
             wrap == x + get_widget_advance(st, f, widget_ptr) > k_right_limit
             x1   == IF wrap THEN start_x ELSE x
             y1   == IF wrap THEN y + line_height + m_padding ELSE y
             lh1  == IF wrap THEN 0 ELSE line_height
             pf1  == IF wrap THEN 0 ELSE pad_fix
             x2   == IF is_horizontal_spacer(st, f, widget_ptr) THEN x1 + pf1 ELSE x1
             s1   == Step(set_location(st, widget_ptr, x2, y1),
                          f, "set_location", widget_ptr)
         IN place_loop(s1, f, i + 1, start_x, k_right_limit,
                       x2 + get_widget_advance(s1, f, widget_ptr), y1,
                       Max(HeightOf(s1, widget_ptr), lh1), -m_padding)

\* a positioning loop that also wraps the widget that ends at the right limit
place_loop_wrap_at_limit(st, f, i, start_x, k_right_limit, x, y, line_height, pad_fix) ==
    IF i > Len(st.m_widgets[f]) THEN st
    ELSE LET widget_ptr == st.m_widgets[f][i]
             m_padding  == st.m_padding[f]
         IN IF is_line_seperator(f, widget_ptr)
            THEN place_loop(st, f, i + 1, start_x, k_right_limit,
                            start_x, y + line_height + m_padding, 0, 0)
            ELSE LET wrap == x + get_widget_advance(st, f, widget_ptr) >= k_right_limit
                     x1   == IF wrap THEN start_x ELSE x
                     y1   == IF wrap THEN y + line_height + m_padding ELSE y
                     lh1  == IF wrap THEN 0 ELSE line_height
                     pf1  == IF wrap THEN 0 ELSE pad_fix
                     x2   == IF is_horizontal_spacer(st, f, widget_ptr) THEN x1 + pf1 ELSE x1
                     s1   == Step(set_location(st, widget_ptr, x2, y1),
                                  f, "set_location", widget_ptr)
                 IN place_loop(s1, f, i + 1, start_x, k_right_limit,
                               x2 + get_widget_advance(s1, f, widget_ptr), y1,
                               Max(HeightOf(s1, widget_ptr), lh1), -m_padding)

\* the positioning loop of Frame::finalize_widgets(): the cursor (x, y), the
\* height of the line so far and the padding a spacer takes back
place_loop(st, f, i, start_x, k_right_limit, x, y, line_height, pad_fix) ==
    IF i > Len(st.m_widgets[f]) THEN st
    ELSE LET widget_ptr == st.m_widgets[f][i]
             m_padding  == st.m_padding[f]
         IN IF is_line_seperator(f, widget_ptr)
            THEN place_loop(st, f, i + 1, start_x, k_right_limit,
                            start_x, y + line_height + m_padding, 0, 0)
            ELSE LET wrap == x + get_widget_advance(st, f, widget_ptr) > k_right_limit
                     x1   == IF wrap THEN start_x ELSE x
                     y1   == IF wrap THEN y + line_height + m_padding ELSE y
                     lh1  == IF wrap THEN 0 ELSE line_height
                     pf1  == IF wrap THEN 0 ELSE pad_fix
                     x2   == IF is_horizontal_spacer(st, f, widget_ptr) THEN x1 + pf1 ELSE x1
                     s1   == Step(set_location(st, widget_ptr, x2, y1),
                                  f, "set_location", widget_ptr)
                 IN place_loop(s1, f, i + 1, start_x, k_right_limit,
                               x2 + get_widget_advance(s1, f, widget_ptr), y1,
                               Max(HeightOf(s1, widget_ptr), lh1), -m_padding)

\* a positioning pass whose first line starts at the interior top
place_widgets_at_interior_top(st, f) ==
    LET b       == st.m_border[f]
        start_x == widget_start(b).x + st.m_padding[f]
    IN place_loop(st, f, 1, start_x, b.x + b.w,
                  start_x, widget_start(b).y, 0, 0)

\* the positioning of Frame::finalize_widgets()
place_widgets(st, f) ==
    LET b       == st.m_border[f]
        start_x == widget_start(b).x + st.m_padding[f]
    IN place_loop(st, f, 1, start_x, b.x + b.w,
                  start_x, widget_start(b).y + st.m_padding[f], 0, 0)

\* FocusHandler::clear_focus_widgets and FocusHandler::take_widgets_from of
\* the focus handler of frame g, foc the focus lists of the frames: the
\* handler keeps the list it is handed, in its order
clear_focus_widgets(foc, g) == [foc EXCEPT ![g] = <<>>]
take_widgets_from(foc, g, focus_widgets) == [foc EXCEPT ![g] = focus_widgets]

\* Frame::iterate_children_ with the visitor of Frame.cpp:326-333: acc.foc are
\* the focus lists of the frames, acc.fw the focus widgets collected so far
RECURSIVE iterate_children(_, _, _, _)

\* a visitor that leaves the focus lists of the frames it comes to as they are
iterate_children_keeping_nested(mw, f, acc, i) ==
    IF i > Len(mw[f]) THEN acc
    ELSE LET widget == mw[f][i]
             a2 == IF widget.k = "leaf" /\ widget.id \in FocusLeaves
                   THEN [acc EXCEPT !.fw = Append(@, widget.id)] ELSE acc
             a3 == IF widget.k = "frame" THEN iterate_children(mw, widget.id, a2, 1) ELSE a2
         IN iterate_children(mw, f, a3, i + 1)

iterate_children(mw, f, acc, i) ==
    IF i > Len(mw[f]) THEN acc
    ELSE LET widget == mw[f][i]
             a1 == IF widget.k = "frame"
                   THEN [acc EXCEPT !.foc = clear_focus_widgets(@, widget.id)] ELSE acc
             a2 == IF widget.k = "leaf" /\ widget.id \in FocusLeaves
                   THEN [a1 EXCEPT !.fw = Append(@, widget.id)] ELSE a1
             a3 == IF widget.k = "frame" THEN iterate_children(mw, widget.id, a2, 1) ELSE a2
         IN iterate_children(mw, f, a3, i + 1)

rebuild_focus(st, f) ==
    With(iterate_children(st.m_widgets, f, [foc |-> st.m_focus_handler, fw |-> <<>>], 1),
         LAMBDA acc : [st EXCEPT !.m_focus_handler = take_widgets_from(acc.foc, f, acc.fw)])

\* the child frames' own finalize (Frame.cpp:316-320)
RECURSIVE finalize_widgets(_, _, _)
RECURSIVE finalize_children(_, _, _, _)
finalize_children(st, f, d, i) ==
    IF st.crash \/ i > Len(st.m_widgets[f]) THEN st
    ELSE LET ptr == st.m_widgets[f][i]
             s1  == IF ptr.k = "frame" THEN finalize_widgets(st, ptr.id, d + 1) ELSE st
         IN finalize_children(s1, f, d, i + 1)

\* a geometry finalize that places the widgets before it sets the spacer widths
finalize_widgets_spacers_last(st, f, d) ==
    IF d > Cardinality(Frames) THEN [st EXCEPT !.crash = TRUE]
    ELSE With(issue_auto_resize(st, f, 1),
              LAMBDA s1 :
                  IF s1.crash THEN s1
                  ELSE With(finalize_children(
                                update_horizontal_spacers(place_widgets(s1, f), f),
                                f, d, 1),
                            LAMBDA s4 :
                                IF s4.crash THEN s4
                                ELSE [rebuild_focus(s4, f) EXCEPT !.fin = @ \cup {f}]))

\* a geometry finalize that rebuilds the focus list before the child frames'
\* own finalize
finalize_widgets_focus_before_children(st, f, d) ==
    IF d > Cardinality(Frames) THEN [st EXCEPT !.crash = TRUE]
    ELSE With(issue_auto_resize(st, f, 1),
              LAMBDA s1 :
                  IF s1.crash THEN s1
                  ELSE With(finalize_children(
                                Step(Step(rebuild_focus(
                                    Step(place_widgets(
                                        Step(update_horizontal_spacers(
                                            Step(Step(s1, f, "auto_resize", NullPtr),
                                                 f, "border", NullPtr), f),
                                            f, "spacers", NullPtr), f),
                                        f, "positioning", NullPtr), f),
                                    f, "focus", NullPtr),
                                    f, "children", NullPtr),
                                f, d, 1),
                            LAMBDA s4 :
                                IF s4.crash THEN s4
                                ELSE [s4 EXCEPT !.fin = @ \cup {f}]))

\* Frame::finalize_widgets(): the geometry finalize. Each step is noted when
\* it is done, the recursion into the child frames when it begins.
finalize_widgets(st, f, d) ==
    IF d > Cardinality(Frames) THEN [st EXCEPT !.crash = TRUE]
    ELSE With(issue_auto_resize(st, f, 1),
              LAMBDA s1 :
                  IF s1.crash THEN s1
                  ELSE With(finalize_children(
                                Step(Step(place_widgets(
                                    Step(update_horizontal_spacers(
                                        Step(Step(s1, f, "auto_resize", NullPtr),
                                             f, "border", NullPtr), f),
                                        f, "spacers", NullPtr), f),
                                    f, "positioning", NullPtr),
                                    f, "children", NullPtr),
                                f, d, 1),
                            LAMBDA s4 :
                                IF s4.crash THEN s4
                                ELSE [Step(rebuild_focus(s4, f), f, "focus", NullPtr)
                                          EXCEPT !.fin = @ \cup {f}]))

\* the self-containment scan of the adder's finalize (Frame.cpp:235-241):
\* "ok", "throw", or "X" when Frame::contains never returns
RECURSIVE self_check(_, _, _, _)
self_check(mw, f, widgets, i) ==
    IF i > Len(widgets) THEN "ok"
    ELSE With(IF widgets[i].k = "frame"
              THEN contains(mw, widgets[i].id, FramePtr(f), 1)
              ELSE "F",
              LAMBDA r : IF r = "T" THEN "throw"
                         ELSE IF r = "X" THEN "X"
                         ELSE self_check(mw, f, widgets, i + 1))

\* finalize that commits before it checks
finalize_widgets_commit_first(st, f, widgets, spacers, the_line_sep, styles) ==
    LET s1  == [st EXCEPT !.m_widgets[f] = widgets, !.m_horz_spacers[f] = spacers]
        chk == self_check(s1.m_widgets, f, widgets, 1)
    IN IF chk = "throw" THEN [s1 EXCEPT !.error = "invalid_argument"]
       ELSE IF chk = "X" THEN [s1 EXCEPT !.crash = TRUE]
       ELSE IF styles.present
            THEN LET s2 == set_style(s1, f, styles, 1)
                 IN IF s2.crash THEN s2 ELSE finalize_widgets(s2, f, 1)
            ELSE s1

\* finalize that appends to the committed contents
finalize_widgets_appending(st, f, widgets, spacers, the_line_sep, styles) ==
    LET chk == self_check(st.m_widgets, f, widgets, 1)
    IN IF chk = "throw" THEN [st EXCEPT !.error = "invalid_argument"]
       ELSE IF chk = "X" THEN [st EXCEPT !.crash = TRUE]
       ELSE LET s1 == [st EXCEPT !.m_widgets[f] = @ \o widgets,
                                 !.m_horz_spacers[f] = spacers]
            IN IF styles.present
               THEN LET s2 == set_style(s1, f, styles, 1)
                    IN IF s2.crash THEN s2 ELSE finalize_widgets(s2, f, 1)
               ELSE s1

\* finalize that runs the geometry finalize without a style map too
finalize_widgets_always_geometry(st, f, widgets, spacers, the_line_sep, styles) ==
    LET chk == self_check(st.m_widgets, f, widgets, 1)
    IN IF chk = "throw" THEN [st EXCEPT !.error = "invalid_argument"]
       ELSE IF chk = "X" THEN [st EXCEPT !.crash = TRUE]
       ELSE LET s1 == [st EXCEPT !.m_widgets[f] = widgets,
                                 !.m_horz_spacers[f] = spacers]
                s2 == IF styles.present THEN set_style(s1, f, styles, 1) ELSE s1
            IN IF s2.crash THEN s2 ELSE finalize_widgets(s2, f, 1)

\* Frame::finalize_widgets(widgets, spacers, the_line_sep, styles)
finalize_widgets_adder(st, f, widgets, spacers, the_line_sep, styles) ==
    IF the_line_sep # f THEN [st EXCEPT !.error = "invalid_argument"]
    ELSE With(self_check(st.m_widgets, f, widgets, 1),
              LAMBDA chk :
                  IF chk = "throw" THEN [st EXCEPT !.error = "invalid_argument"]
                  ELSE IF chk = "X" THEN [st EXCEPT !.crash = TRUE]
                  ELSE LET s1 == [st EXCEPT !.m_widgets[f] = widgets,
                                            !.m_horz_spacers[f] = spacers]
                       IN IF styles.present
                          THEN With(set_style(s1, f, styles, 1),
                                    LAMBDA s2 : IF s2.crash THEN s2
                                                ELSE finalize_widgets(s2, f, 1))
                          ELSE s1)

\* the answer of a border that takes no notice of an event
Ignored == [skip_other_events |-> FALSE, should_update_geometry |-> FALSE]

\* Widget::is_visible of the widget a pointer of the list refers to; spacers
\* and line seperators are never hidden
is_visible(st, ptr) ==
    IF ptr.k \in {"leaf", "frame"} THEN st.m_visible[ptr.id] ELSE TRUE

\* Frame::process_event. event[g] is what the border of frame g answers to
\* the event: skip_other_events and should_update_geometry.
RECURSIVE process_event(_, _, _, _)
RECURSIVE process_event_children(_, _, _, _, _)
\* frame f hands the event on: to its border (what = "border", with the
\* border's answer gv), to the widget ptr of its list (what = "widget") or to
\* its focus handler (what = "focus"); at is the number of steps of geometry
\* finalizes taken in this call before
Received(st, f, what, ptr, gv) ==
    [st EXCEPT !.recv = Append(@, [by |-> f, what |-> what, ptr |-> ptr, gv |-> gv,
                                   at |-> Len(st.steps)])]

\* the loop over m_widgets
process_event_children(st, f, event, d, i) ==
    IF st.crash \/ i > Len(st.m_widgets[f]) THEN st
    ELSE LET widget_ptr == st.m_widgets[f][i]
         IN process_event_children(
                IF ~is_visible(st, widget_ptr) THEN st
                ELSE IF widget_ptr.k = "frame"
                THEN process_event(Received(st, f, "widget", widget_ptr, Ignored),
                                   widget_ptr.id, event, d + 1)
                ELSE Received(st, f, "widget", widget_ptr, Ignored),
                f, event, d, i + 1)

\* a dispatch that reaches the children although the border asked to skip them
process_event_never_skipping(st, f, event, d) ==
    IF d > Cardinality(Frames) THEN [st EXCEPT !.crash = TRUE]
    ELSE With(process_event_children(
                  Received(st, f, "border", NullPtr, event[f]), f, event, d, 1),
              LAMBDA s1 : IF s1.crash THEN s1
                          ELSE With(Received(s1, f, "focus", NullPtr, Ignored),
                                    LAMBDA s2 : IF event[f].should_update_geometry
                                                THEN finalize_widgets(
                                                         Step(s2, f, "finalize_widgets", NullPtr),
                                                         f, 1)
                                                ELSE s2))

\* a process_event that leaves the geometry as it is when the border asked to
\* skip the other events
process_event_updating_unless_skipped(st, f, event, d) ==
    IF d > Cardinality(Frames) THEN [st EXCEPT !.crash = TRUE]
    ELSE IF event[f].skip_other_events
    THEN Received(st, f, "border", NullPtr, event[f])
    ELSE With(process_event_children(
                  Received(st, f, "border", NullPtr, event[f]), f, event, d, 1),
              LAMBDA s1 : IF s1.crash THEN s1
                          ELSE With(Received(s1, f, "focus", NullPtr, Ignored),
                                    LAMBDA s2 : IF event[f].should_update_geometry
                                                THEN finalize_widgets(
                                                         Step(s2, f, "finalize_widgets", NullPtr),
                                                         f, 1)
                                                ELSE s2))

process_event(st, f, event, d) ==
    IF d > Cardinality(Frames) THEN [st EXCEPT !.crash = TRUE]
    ELSE With(IF ~event[f].skip_other_events
              THEN process_event_children(
                       Received(st, f, "border", NullPtr, event[f]), f, event, d, 1)
              ELSE Received(st, f, "border", NullPtr, event[f]),
              LAMBDA s1 : IF s1.crash THEN s1
                          ELSE With(IF ~event[f].skip_other_events
                                    THEN Received(s1, f, "focus", NullPtr, Ignored)
                                    ELSE s1,
                                    LAMBDA s2 : IF event[f].should_update_geometry
                                                THEN finalize_widgets(
                                                         Step(s2, f, "finalize_widgets", NullPtr),
                                                         f, 1)
                                                ELSE s2))

\* ---------------------------------------------------------------- widgets
\* TextArea::k_unassigned_size: the size of a text area without a size
k_unassigned_size == -px(1)

\* DrawRectangle(): at the origin, no size
NewRectangle == [x |-> 0, y |-> 0, w |-> 0, h |-> 0]

\* a fill amount of 1, in the units of the model
Full == Scale

\* no widget beside the frames
NoWidget == [class |-> "none"]

\* ProgressBar::ProgressBar
NewProgressBar ==
    [class |-> "ProgressBar", m_fill_amount |-> 0, m_padding |-> 0, m_outer |-> NewRectangle,
     m_inner_back |-> NewRectangle, m_inner_front |-> NewRectangle]

\* ProgressBar::active_padding
active_padding(pb) ==
    IF pb.m_outer.w < pb.m_padding \/ pb.m_outer.h < pb.m_padding THEN 0 ELSE pb.m_padding

\* ProgressBar::update_sizes_using_outer
update_sizes_using_outer(pb) ==
    LET width  == pb.m_outer.w
        height == pb.m_outer.h
        pad    == active_padding(pb)
    IN [pb EXCEPT !.m_inner_back.w  = width - pad * 2,
                  !.m_inner_back.h  = height - pad * 2,
                  !.m_inner_front.w = ((width - pad * 2) * pb.m_fill_amount) \div Full,
                  !.m_inner_front.h = height - pad * 2]

\* ProgressBar::set_size: the bar after the call, and what it throws
ProgressBar_set_size(pb, w, h) ==
    [w |-> update_sizes_using_outer([pb EXCEPT !.m_outer.w = w, !.m_outer.h = h]),
     error |-> "none"]

\* a set_fill_amount that stores the amount before it looks at it
ProgressBar_set_fill_amount_storing_first(pb, fill_amount) ==
    IF fill_amount < 0 \/ fill_amount > Full
    THEN [w |-> [pb EXCEPT !.m_fill_amount = fill_amount], error |-> "out_of_range"]
    ELSE ProgressBar_set_size([pb EXCEPT !.m_fill_amount = fill_amount],
                              pb.m_outer.w, pb.m_outer.h)

\* ProgressBar::set_fill_amount
ProgressBar_set_fill_amount(pb, fill_amount) ==
    IF fill_amount < 0 \/ fill_amount > Full
    THEN [w |-> pb, error |-> "out_of_range"]
    ELSE ProgressBar_set_size([pb EXCEPT !.m_fill_amount = fill_amount],
                              pb.m_outer.w, pb.m_outer.h)

\* the width and height of the text a text area draws
text_size == [w |-> px(20), h |-> px(10)]

\* TextArea::TextArea: no bounds, no limits on the text
NewTextArea ==
    [class |-> "TextArea", m_bounds |-> [left |-> 0, top |-> 0, width |-> k_unassigned_size,
                   height |-> k_unassigned_size],
     limiting_width |-> k_unassigned_size, limiting_height |-> k_unassigned_size,
     text_loc |-> [x |-> 0, y |-> 0]]

is_unassigned(x) == x = k_unassigned_size

\* verify_valid_size: TRUE when it returns, FALSE when it throws
verify_valid_size(x) == is_unassigned(x) \/ ~(x < 0)

\* TextArea::recompute_geometry
recompute_geometry(ta) ==
    [ta EXCEPT
        !.text_loc.x = IF is_unassigned(ta.m_bounds.width) THEN ta.m_bounds.left
                       ELSE ta.m_bounds.left + (ta.m_bounds.width - text_size.w) \div 2,
        !.text_loc.y = IF is_unassigned(ta.m_bounds.height) THEN ta.m_bounds.top
                       ELSE ta.m_bounds.top + (ta.m_bounds.height - text_size.h) \div 2]

\* TextArea::set_max_width_no_update and set_max_height_no_update, after
\* their verify_valid_size: a limit, or the sentinel for none
set_max_width_no_update(ta, w) == [ta EXCEPT !.limiting_width = w]
set_max_height_no_update(ta, h) == [ta EXCEPT !.limiting_height = h]

\* TextArea::set_size: the text area after the call, and what it throws
TextArea_set_size(ta, w, h) ==
    IF ~verify_valid_size(w) THEN [w |-> ta, error |-> "invalid_argument"]
    ELSE With(set_max_width_no_update([ta EXCEPT !.m_bounds.width = w], w),
              LAMBDA t1 :
                  IF ~verify_valid_size(h) THEN [w |-> t1, error |-> "invalid_argument"]
                  ELSE [w |-> recompute_geometry(
                                  set_max_height_no_update(
                                      [t1 EXCEPT !.m_bounds.height = h], h)),
                        error |-> "none"])

\* TextArea::set_width, TextArea::set_height
TextArea_set_width(ta, w) == TextArea_set_size(ta, w, ta.m_bounds.height)
TextArea_set_height(ta, h) == TextArea_set_size(ta, ta.m_bounds.width, h)

\* TextArea::set_max_width, TextArea::set_max_height
TextArea_set_max_width(ta, w) ==
    IF ~verify_valid_size(w) THEN [w |-> ta, error |-> "invalid_argument"]
    ELSE [w |-> recompute_geometry(set_max_width_no_update(ta, w)), error |-> "none"]
TextArea_set_max_height(ta, h) ==
    IF ~verify_valid_size(h) THEN [w |-> ta, error |-> "invalid_argument"]
    ELSE [w |-> recompute_geometry(set_max_height_no_update(ta, h)), error |-> "none"]

\* Button::Button
NewButton == [class |-> "Button", m_padding |-> 0, m_outer |-> NewRectangle, m_inner |-> NewRectangle]

\* Button::set_button_frame_size
set_button_frame_size(b, width_, height_) ==
    [b EXCEPT !.m_outer.w = width_, !.m_outer.h = height_,
              !.m_inner.w = Max(width_ - b.m_padding * 2, 0),
              !.m_inner.h = Max(height_ - b.m_padding * 2, 0)]

\* Button::set_size: the button after the call, and what it throws
Button_set_size(b, width_, height_) ==
    IF width_ <= 0 \/ height_ <= 0 THEN [w |-> b, error |-> "invalid_argument"]
    ELSE [w |-> set_button_frame_size(b, width_, height_), error |-> "none"]

\* ---------------------------------------------------------------- state
VARIABLES
    m_widgets,        \* Frame::m_widgets, per frame
    m_horz_spacers,   \* Frame::m_horz_spacers, per frame
    m_padding,        \* Frame::m_padding, per frame
    m_border,         \* Frame::m_border: location, size, border size, title
    m_focus_handler,  \* the focus widgets of Frame::m_focus_handler, per frame
    leaf,             \* location and size of the leaf widgets
    adder,            \* the live WidgetAdder of each frame, if any
    error,            \* the exception the last call ended with
    halted,           \* the process ended in unbounded recursion
    last,             \* the last call: its name and frame; for the end of an
                      \* adder also the calls made on it, the finalize calls
                      \* it made and the frame's widget list before it; the
                      \* frames whose geometry finalize ran in the call
    calls,            \* the calls made on the live adder of each frame
    ncalls,           \* number of calls so far
    m_visible,        \* Widget::is_visible() of each frame and leaf widget
    widget            \* a widget of its own, if any: a ProgressBar (its fill
                      \* amount, padding and rectangles), a TextArea (its
                      \* bounds, its text's limits and location) or a Button
                      \* (its padding and rectangles)

vars == <<m_widgets, m_horz_spacers, m_padding, m_border, m_focus_handler,
          leaf, adder, error, halted, last, calls, ncalls, m_visible,
          widget>>

\* what the frames and widgets hold, without the builders
frame_vars == <<m_widgets, m_horz_spacers, m_padding, m_border, m_focus_handler, leaf,
                m_visible, widget>>

State ==
    [m_widgets |-> m_widgets, m_horz_spacers |-> m_horz_spacers,
     m_padding |-> m_padding, m_border |-> m_border,
     m_focus_handler |-> m_focus_handler, leaf |-> leaf,
     m_visible |-> m_visible, recv |-> <<>>, steps |-> <<>>,
     hook |-> NoHooks, error |-> "none", crash |-> FALSE, fin |-> {}]

\* the frames and widgets after a step
StateAfter ==
    [m_widgets |-> m_widgets', m_horz_spacers |-> m_horz_spacers',
     m_padding |-> m_padding', m_border |-> m_border',
     m_focus_handler |-> m_focus_handler', leaf |-> leaf',
     m_visible |-> m_visible', recv |-> <<>>, steps |-> <<>>,
     hook |-> NoHooks, error |-> "none", crash |-> FALSE, fin |-> {}]

\* the state a call leaves behind; a process that ran out of stack is gone
Leave(s) ==
    IF s.crash
    THEN /\ halted' = TRUE
         /\ error' = "stack_overflow"
         /\ UNCHANGED frame_vars
    ELSE /\ halted' = FALSE
         /\ error' = s.error
         /\ m_widgets' = s.m_widgets
         /\ m_horz_spacers' = s.m_horz_spacers
         /\ m_padding' = s.m_padding
         /\ m_border' = s.m_border
         /\ m_focus_handler' = s.m_focus_handler
         /\ leaf' = s.leaf
         /\ m_visible' = s.m_visible
         /\ UNCHANGED widget

\* the border size of a new frame, in pixels ("Default is five pixels")
default_border_size == 5

\* FrameBorder of a new Frame: at the origin, no size, no title
NewBorder == [x |-> 0, y |-> 0, w |-> 0, h |-> 0, bs |-> px(default_border_size), th |-> 0, tw |-> 0]

NoCall ==
    [op |-> "none", f |-> "", exc |-> FALSE, log |-> <<>>, handed |-> <<>>,
     prev |-> <<>>, finalized |-> {}, recv |-> <<>>, args |-> <<>>, steps |-> <<>>,
     located |-> {}]

\* the frames and the widgets as constructed
Init ==
    /\ m_widgets = [f \in Frames |-> <<>>]
    /\ m_horz_spacers = [f \in Frames |-> EmptyVector]
    /\ m_padding = [f \in Frames |-> k_unset_padding]
    /\ m_border = [f \in Frames |-> NewBorder]
    /\ m_focus_handler = [f \in Frames |-> <<>>]
    /\ leaf = [w \in Leaves |-> [x |-> 0, y |-> 0, w |-> px(30), h |-> px(20)]]
    /\ adder = [f \in Frames |-> NoAdder]
    /\ error = "none"
    /\ halted = FALSE
    /\ last = NoCall
    /\ calls = [f \in Frames |-> <<>>]
    /\ ncalls = 0
    /\ m_visible = [w \in Frames \cup Leaves |-> TRUE]
    /\ widget = NoWidget

\* the style maps a caller supplies: without and with the padding key
Styles == {StyleMap(FALSE, 0), StyleMap(TRUE, px(10))}
\* the widgets a caller adds in Spec
AddTargets == Frames \cup {"W1"}

\* one more call, within the bound of a run
Count == ncalls < MaxCalls /\ ncalls' = ncalls + 1

\* Frame::begin_adding_widgets() and begin_adding_widgets(styles)
BeginAdding(f, styles) ==
    /\ Count
    /\ ~halted
    /\ \A g \in Frames : ~adder[g].open
    /\ adder' = [adder EXCEPT ![f] = WidgetAdder(f, styles, f)]
    /\ calls' = [calls EXCEPT ![f] = <<>>]
    /\ last' = [NoCall EXCEPT !.op = "begin", !.f = f]
    /\ error' = "none"
    /\ UNCHANGED <<frame_vars, halted>>

\* adder.add(widget)
AddWidget(f, t) ==
    /\ Count
    /\ ~halted
    /\ adder[f].open
    /\ adder' = [adder EXCEPT ![f] = add(@, WidgetPtr(t))]
    /\ calls' = [calls EXCEPT ![f] = Append(@, [op |-> "add", id |-> t])]
    /\ last' = [NoCall EXCEPT !.op = "add", !.f = f]
    /\ error' = "none"
    /\ UNCHANGED <<frame_vars, halted>>

\* adder.add_horizontal_spacer()
AddHorizontalSpacer(f) ==
    /\ Count
    /\ ~halted
    /\ adder[f].open
    /\ adder' = [adder EXCEPT ![f] = add_horizontal_spacer(@)]
    /\ calls' = [calls EXCEPT ![f] = Append(@, [op |-> "spacer", id |-> ""])]
    /\ last' = [NoCall EXCEPT !.op = "add_horizontal_spacer", !.f = f]
    /\ error' = "none"
    /\ UNCHANGED <<frame_vars, halted>>

\* adder.add_line_seperator()
AddLineSeperator(f) ==
    /\ Count
    /\ ~halted
    /\ adder[f].open
    /\ adder' = [adder EXCEPT ![f] = add_line_seperator(@)]
    /\ calls' = [calls EXCEPT ![f] = Append(@, [op |-> "sep", id |-> ""])]
    /\ last' = [NoCall EXCEPT !.op = "add_line_seperator", !.f = f]
    /\ error' = "none"
    /\ UNCHANGED <<frame_vars, halted>>

\* a destructor that finalizes while an exception propagates
destroy_adder_unwinding(st, a, uncaught_exceptions) ==
    IF a.m_parent = "" THEN [st |-> st, handed |-> <<>>]
    ELSE [st |-> finalize_widgets_adder(st, a.m_parent, a.m_widgets, a.m_horz_spacers,
                                        a.m_the_line_sep, a.m_styles),
          handed |-> <<[f |-> a.m_parent, widgets |-> a.m_widgets,
                        spacers |-> a.m_horz_spacers, styles |-> a.m_styles]>>]

\* WidgetAdder::~WidgetAdder: what it does to the frames, given whether an
\* exception is propagating; result.handed are the finalize calls it made
destroy_adder(st, a, uncaught_exceptions) ==
    IF uncaught_exceptions > 0 THEN [st |-> st, handed |-> <<>>]
    ELSE IF a.m_parent = "" THEN [st |-> st, handed |-> <<>>]
    ELSE [st |-> finalize_widgets_adder(st, a.m_parent, a.m_widgets, a.m_horz_spacers,
                                        a.m_the_line_sep, a.m_styles),
          handed |-> <<[f |-> a.m_parent, widgets |-> a.m_widgets,
                        spacers |-> a.m_horz_spacers, styles |-> a.m_styles]>>]

\* what the end of the adder of frame f leaves behind, r the result of the
\* destructor
Destroyed(f, exc, r) ==
    /\ Leave(r.st)
    /\ last' = [op |-> "destroy", f |-> f, exc |-> exc,
                log |-> calls[f], handed |-> r.handed, prev |-> m_widgets[f],
                finalized |-> IF r.st.crash THEN {} ELSE r.st.fin]

\* the adder of frame f goes out of scope
DestroyAdder(f, exc) ==
    /\ Count
    /\ ~halted
    /\ adder[f].open
    /\ Destroyed(f, exc, destroy_adder(State, adder[f], IF exc THEN 1 ELSE 0))
    /\ adder' = [adder EXCEPT ![f] = NoAdder]
    /\ calls' = [calls EXCEPT ![f] = <<>>]

Next ==
    \/ \E f \in Frames : BeginAdding(f, NoStyles)
    \/ \E f \in Frames, styles \in Styles : BeginAdding(f, styles)
    \/ \E f \in Frames, t \in AddTargets : AddWidget(f, t)
    \/ \E f \in Frames : AddHorizontalSpacer(f)
    \/ \E f \in Frames : AddLineSeperator(f)
    \/ \E f \in Frames, exc \in BOOLEAN : DestroyAdder(f, exc)

Spec == Init /\ [][Next]_vars

\* ---------------------------------------------------------------- layout
\* A second specification: frames that were filled through adders without a
\* style map and sized by their owner, then receive events.

\* what an adder is asked to add: widgets, a nested frame, spacers, line breaks
Symbols == {"W1", "W2", "W3", "F2", "spacer", "sep"}
Range(s) == {s[i] : i \in DOMAIN s}
\* the lists of F1: any calls, each widget added at most once, and the leaf
\* widgets named in the order they are added
Lists1 ==
    {s \in UNION {[1 .. n -> Symbols] : n \in 0 .. MaxLen} :
        /\ \A i, j \in DOMAIN s : (i < j /\ s[i] = s[j]) => s[i] \in {"spacer", "sep"}
        /\ \A j \in DOMAIN s :
              /\ s[j] = "W2" => \E i \in 1 .. (j - 1) : s[i] = "W1"
              /\ s[j] = "W3" => \E i \in 1 .. (j - 1) : s[i] = "W2"}
\* no Frame::set_size: the frame sizes itself
NoSize == [w |-> 0, h |-> 0]
\* no title: the border keeps no room for one
NoTitle == [th |-> 0, tw |-> 0]
\* the frame F2: its list, its Frame::set_size and the room its border keeps
\* for its title
Nested ==
    {[list |-> <<>>, size |-> NoSize, title |-> NoTitle],
     [list |-> <<>>, size |-> NoSize, title |-> [th |-> px(15), tw |-> px(50)]],
     [list |-> <<"W4">>, size |-> NoSize, title |-> NoTitle],
     [list |-> <<"spacer", "W4">>, size |-> NoSize, title |-> NoTitle],
     [list |-> <<"spacer", "W4">>, size |-> [w |-> px(80), h |-> px(40)], title |-> NoTitle]}
\* Frame::set_padding and Frame::set_size of F1
Outer ==
    {[padding |-> p, size |-> NoSize] : p \in {0, px(10)}}
        \cup {[padding |-> p, size |-> [w |-> px(95), h |-> px(100)]] : p \in {0, px(10)}}
        \cup {[padding |-> px(10), size |-> [w |-> px(w), h |-> px(100)]] : w \in {90, 110}}
\* the heights of the leaf widgets
LeafHeights == [W1 |-> px(20), W2 |-> px(10), W3 |-> px(30), W4 |-> px(20)]

\* the calls syms made on adder a
RECURSIVE replay(_, _, _)
replay(a, syms, i) ==
    IF i > Len(syms) THEN a
    ELSE replay(CASE syms[i] = "spacer" -> add_horizontal_spacer(a)
                  [] syms[i] = "sep"    -> add_line_seperator(a)
                  [] OTHER              -> add(a, WidgetPtr(syms[i])),
                syms, i + 1)

\* begin_adding_widgets() on f, the calls syms, the end of the adder's scope
fill(st, f, syms) ==
    destroy_adder(st, replay(WidgetAdder(f, NoStyles, f), syms, 1), 0).st

\* the frames and widgets are as in st
Holds(st) ==
    /\ m_widgets = st.m_widgets
    /\ m_horz_spacers = st.m_horz_spacers
    /\ m_padding = st.m_padding
    /\ m_border = st.m_border
    /\ m_focus_handler = st.m_focus_handler
    /\ leaf = st.leaf
    /\ m_visible = st.m_visible
    /\ widget = NoWidget

\* the widgets that can be hidden (Widget::set_visible(false)) before the
\* events come
Hidden == {{}, {"W1"}, {"F2"}}

\* frames filled and sized in one of the ways outers, with some of the
\* widgets hiddens hidden
Filled(outers, hiddens) ==
    \E l1 \in Lists1, nested \in Nested, outer \in outers, hidden \in hiddens :
        /\ "F2" \notin Range(l1) => nested.list = <<>>
        /\ hidden \subseteq Range(l1)
        /\ LET st0 ==
                 [m_widgets |-> [f \in Frames |-> <<>>],
                  m_horz_spacers |-> [f \in Frames |-> EmptyVector],
                  m_padding |-> [f \in Frames |-> outer.padding],
                  m_border |->
                      [f \in Frames |->
                          IF f = "F1"
                          THEN [NewBorder EXCEPT !.x = px(20), !.y = px(10),
                                                 !.w = outer.size.w, !.h = outer.size.h]
                          ELSE [NewBorder EXCEPT !.w = nested.size.w,
                                                 !.h = nested.size.h,
                                                 !.th = nested.title.th,
                                                 !.tw = nested.title.tw]],
                  m_focus_handler |-> [f \in Frames |-> <<>>],
                  leaf |-> [w \in Leaves |->
                               [x |-> 0, y |-> 0, w |-> px(30), h |-> LeafHeights[w]]],
                  m_visible |-> [w \in Frames \cup Leaves |-> w \notin hidden],
                  recv |-> <<>>, steps |-> <<>>, hook |-> NoHooks,
                  error |-> "none", crash |-> FALSE, fin |-> {}]
           IN Holds(fill(fill(st0, "F2", nested.list), "F1", l1))
        /\ adder = [f \in Frames |-> NoAdder]
        /\ error = "none"
        /\ halted = FALSE
        /\ last = NoCall
        /\ calls = [f \in Frames |-> <<>>]
        /\ ncalls = 0

LayoutInit == Filled(Outer, {{}})

\* what the borders can answer to an event
Events == [Frames -> [skip_other_events : BOOLEAN, should_update_geometry : BOOLEAN]]

\* the frames whose borders see an event given to frame f, n levels deep
RECURSIVE Receivers(_, _, _)
Receivers(f, event, n) ==
    IF n = 0 \/ event[f].skip_other_events THEN {f}
    ELSE {f} \cup UNION {Receivers(m_widgets[f][i].id, event, n - 1) :
                            i \in {j \in DOMAIN m_widgets[f] :
                                      /\ m_widgets[f][j].k = "frame"
                                      /\ is_visible(State, m_widgets[f][j])}}

\* the widgets Widget::set_location was called on in a call with steps
Located(steps) ==
    {steps[i].ptr : i \in {j \in DOMAIN steps : steps[j].step = "set_location"}}

\* what the event given to frame f leaves behind, s the result of the call
Processed(f, s) ==
    /\ Leave(s)
    /\ last' = [NoCall EXCEPT !.op = "process_event", !.f = f,
                              !.finalized = IF s.crash THEN {} ELSE s.fin,
                              !.located = IF s.crash THEN {} ELSE Located(s.steps)]

\* a frame f that is in no other frame is given an event; borders the event
\* never comes to answer nothing
ProcessEvent(f, event) ==
    /\ ~halted
    /\ \A g \in Frames : \A i \in DOMAIN m_widgets[g] : m_widgets[g][i] # FramePtr(f)
    /\ \A g \in Frames \ Receivers(f, event, Cardinality(Frames)) : event[g] = Ignored
    /\ Processed(f, process_event(State, f, event, 1))
    /\ UNCHANGED <<adder, calls, ncalls>>

LayoutNext == \E f \in Frames, event \in Events : ProcessEvent(f, event)

LayoutSpec == LayoutInit /\ [][LayoutNext]_vars

\* ---------------------------------------------------------------- dispatch
\* A third specification: frames with hidden widgets receive events, and who
\* is handed each event is kept.

\* the frames size themselves, with a padding
EventInit == Filled({[padding |-> px(10), size |-> NoSize]}, Hidden)

\* what the event given to frame f leaves behind, s the result of the call
Dispatched(f, s) ==
    /\ Leave(s)
    /\ last' = [NoCall EXCEPT !.op = "process_event", !.f = f,
                              !.finalized = IF s.crash THEN {} ELSE s.fin,
                              !.recv = IF s.crash THEN <<>> ELSE s.recv,
                              !.steps = IF s.crash THEN <<>> ELSE s.steps]

\* a frame f that is in no other frame is given an event
DispatchEvent(f, event) ==
    /\ ~halted
    /\ \A g \in Frames : \A i \in DOMAIN m_widgets[g] : m_widgets[g][i] # FramePtr(f)
    /\ \A g \in Frames \ Receivers(f, event, Cardinality(Frames)) : event[g] = Ignored
    /\ Dispatched(f, process_event(State, f, event, 1))
    /\ UNCHANGED <<adder, calls, ncalls>>

EventNext == \E f \in Frames, event \in Events : DispatchEvent(f, event)

EventSpec == EventInit /\ [][EventNext]_vars

\* ---------------------------------------------------------------- setters
\* A fourth specification: the owner of frames that size themselves calls one
\* setter, with any argument, and then the events come.

SetterInit == Filled({[padding |-> px(10), size |-> NoSize]}, {{}})

\* the paddings, sizes and locations a caller passes
Paddings == {-px(10), px(10)}
Sizes == {[w |-> -px(5), h |-> px(10)], [w |-> px(80), h |-> px(40)]}
Locations == {[x |-> px(40), y |-> px(30)]}

\* Frame::check_invarients on the frames of st: the two asserts hold
check_invarients(st) ==
    \A f \in Frames : st.m_border[f].w >= 0 /\ st.m_border[f].h >= 0

\* what a call that ends in check_invarients leaves behind: with the
\* asserts compiled out (NDEBUG), or holding, the result s of the call; with
\* an assert that fails, the process is aborted
Asserted(s) ==
    \/ Leave(s)
    \/ /\ ~s.crash /\ ~check_invarients(s)
       /\ halted' = TRUE
       /\ error' = "assertion_failed"
       /\ UNCHANGED frame_vars

\* the setters are called on frames that no call was made on yet
Fresh == ~halted /\ last.op = "none"

\* Frame::set_padding: no check
SetPadding(f, pixels) ==
    /\ Fresh
    /\ Leave([State EXCEPT !.m_padding[f] = pixels])
    /\ last' = [NoCall EXCEPT !.op = "set_padding", !.f = f]
    /\ UNCHANGED <<adder, calls, ncalls>>

\* Frame::set_size
SetSize(f, size) ==
    /\ Fresh
    /\ Asserted(set_size(State, f, size.w, size.h))
    /\ last' = [NoCall EXCEPT !.op = "set_size", !.f = f]
    /\ UNCHANGED <<adder, calls, ncalls>>

\* Frame::set_location
SetLocation(f, loc) ==
    /\ Fresh
    /\ Asserted(set_location(State, FramePtr(f), loc.x, loc.y))
    /\ last' = [NoCall EXCEPT !.op = "set_location", !.f = f]
    /\ UNCHANGED <<adder, calls, ncalls>>

\* what the event given to frame f leaves behind, s the result of the call
CheckedProcessed(f, s) ==
    /\ Asserted(s)
    /\ last' = [NoCall EXCEPT !.op = "process_event", !.f = f,
                              !.finalized = IF halted' THEN {} ELSE s.fin]

\* Frame::process_event of a frame f that is in no other frame, with its
\* check_invarients
CheckedEvent(f, event) ==
    /\ ~halted
    /\ \A g \in Frames : \A i \in DOMAIN m_widgets[g] : m_widgets[g][i] # FramePtr(f)
    /\ \A g \in Frames \ Receivers(f, event, Cardinality(Frames)) : event[g] = Ignored
    /\ CheckedProcessed(f, process_event(State, f, event, 1))
    /\ UNCHANGED <<adder, calls, ncalls>>

SetterNext ==
    \/ \E f \in Frames, pixels \in Paddings : SetPadding(f, pixels)
    \/ \E f \in Frames, size \in Sizes : SetSize(f, size)
    \/ \E f \in Frames, loc \in Locations : SetLocation(f, loc)
    \/ \E f \in Frames, event \in Events : CheckedEvent(f, event)

SetterSpec == SetterInit /\ [][SetterNext]_vars

\* ---------------------------------------------------------------- sizing
\* A fifth specification: the setters of a ProgressBar, a TextArea and a
\* Button are called with any argument.

\* the fill amounts a caller passes: -1/2, 0, 1/2, 1, 3/2
FillAmounts == {-(Full \div 2), 0, Full \div 2, Full, 3 * (Full \div 2)}

\* the widths and heights a caller passes
SizeArgs == {-px(5), k_unassigned_size, 0, px(40)}

\* the widths and heights a caller passes together
SizePairs ==
    {[w |-> -px(5), h |-> px(40)], [w |-> px(40), h |-> -px(5)],
     [w |-> k_unassigned_size, h |-> k_unassigned_size],
     [w |-> 0, h |-> px(40)], [w |-> px(40), h |-> px(40)]}

\* one widget is constructed
SizingInit ==
    /\ m_widgets = [f \in Frames |-> <<>>]
    /\ m_horz_spacers = [f \in Frames |-> EmptyVector]
    /\ m_padding = [f \in Frames |-> k_unset_padding]
    /\ m_border = [f \in Frames |-> NewBorder]
    /\ m_focus_handler = [f \in Frames |-> <<>>]
    /\ leaf = [w \in Leaves |-> [x |-> 0, y |-> 0, w |-> px(30), h |-> px(20)]]
    /\ m_visible = [w \in Frames \cup Leaves |-> TRUE]
    /\ adder = [f \in Frames |-> NoAdder]
    /\ error = "none"
    /\ halted = FALSE
    /\ last = NoCall
    /\ calls = [f \in Frames |-> <<>>]
    /\ ncalls = 0
    /\ widget \in {NewProgressBar, NewTextArea, NewButton}

\* what a call op of the widget with arguments args leaves behind: r is
\* the widget after the call and the exception
Called(op, args, r) ==
    /\ widget' = r.w
    /\ error' = r.error
    /\ last' = [NoCall EXCEPT !.op = op, !.args = args]
    /\ UNCHANGED <<m_widgets, m_horz_spacers, m_padding, m_border, m_focus_handler,
                   leaf, m_visible, adder, halted, calls, ncalls>>

SetFillAmount(fill_amount) ==
    /\ widget.class = "ProgressBar"
    /\ Called("ProgressBar::set_fill_amount", <<fill_amount>>,
              ProgressBar_set_fill_amount(widget, fill_amount))

ProgressBarSetSize(size) ==
    /\ widget.class = "ProgressBar"
    /\ Called("ProgressBar::set_size", <<size.w, size.h>>,
              ProgressBar_set_size(widget, size.w, size.h))

TextAreaSetSize(size) ==
    /\ widget.class = "TextArea"
    /\ Called("TextArea::set_size", <<size.w, size.h>>,
              TextArea_set_size(widget, size.w, size.h))

TextAreaSetWidth(w) ==
    /\ widget.class = "TextArea"
    /\ Called("TextArea::set_width", <<w>>, TextArea_set_width(widget, w))

TextAreaSetHeight(h) ==
    /\ widget.class = "TextArea"
    /\ Called("TextArea::set_height", <<h>>, TextArea_set_height(widget, h))

TextAreaSetMaxWidth(w) ==
    /\ widget.class = "TextArea"
    /\ Called("TextArea::set_max_width", <<w>>, TextArea_set_max_width(widget, w))

TextAreaSetMaxHeight(h) ==
    /\ widget.class = "TextArea"
    /\ Called("TextArea::set_max_height", <<h>>, TextArea_set_max_height(widget, h))

ButtonSetSize(size) ==
    /\ widget.class = "Button"
    /\ Called("Button::set_size", <<size.w, size.h>>,
              Button_set_size(widget, size.w, size.h))

SizingNext ==
    \/ \E fill_amount \in FillAmounts : SetFillAmount(fill_amount)
    \/ \E size \in SizePairs : ProgressBarSetSize(size)
    \/ \E size \in SizePairs : TextAreaSetSize(size)
    \/ \E w \in SizeArgs : TextAreaSetWidth(w)
    \/ \E h \in SizeArgs : TextAreaSetHeight(h)
    \/ \E w \in SizeArgs : TextAreaSetMaxWidth(w)
    \/ \E h \in SizeArgs : TextAreaSetMaxHeight(h)
    \/ \E size \in SizePairs : ButtonSetSize(size)

SizingSpec == SizingInit /\ [][SizingNext]_vars

\* ---------------------------------------------------------------- derived
\* A sixth specification: the frame that is given the events is of a class
\* derived from Frame, with an issue_auto_resize_for_frame of its own.

DerivedInit == Filled({[padding |-> px(10), size |-> NoSize]}, {{}})

\* Frame::process_event of a frame f that is in no other frame and whose
\* class has the hook h
DerivedEvent(f, event, h) ==
    /\ ~halted
    /\ \A g \in Frames : \A i \in DOMAIN m_widgets[g] : m_widgets[g][i] # FramePtr(f)
    /\ \A g \in Frames \ Receivers(f, event, Cardinality(Frames)) : event[g] = Ignored
    /\ With(process_event([State EXCEPT !.hook[f] = h], f, event, 1),
            LAMBDA s :
                /\ Leave(s)
                /\ last' = [NoCall EXCEPT !.op = "process_event", !.f = f,
                                          !.args = <<h>>,
                                          !.finalized = IF s.crash THEN {} ELSE s.fin])
    /\ UNCHANGED <<adder, calls, ncalls>>

DerivedNext == \E f \in Frames, event \in Events, h \in Hooks : DerivedEvent(f, event, h)

DerivedSpec == DerivedInit /\ [][DerivedNext]_vars

\* ---------------------------------------------------------------- claims
\* the frames a frame holds directly, and at any depth
Kids(mw, g) == {mw[g][i].id : i \in {j \in DOMAIN mw[g] : mw[g][j].k = "frame"}}

RECURSIVE Closure(_, _, _)
Closure(mw, S, n) ==
    IF n = 0 THEN S
    ELSE Closure(mw, S \cup UNION {Kids(mw, g) : g \in S}, n - 1)

Descendants(mw, g) == Closure(mw, Kids(mw, g), Cardinality(Frames))

\* this step is the end of scope of frame f's adder, with no exception propagating
ClosesNormally(f) ==
    adder[f].open /\ last'.op = "destroy" /\ last'.f = f /\ ~last'.exc

\* the list frame f's adder hands over holds f or a frame that contains f
HandsSelfContaining(f) ==
    \E i \in DOMAIN adder[f].m_widgets :
        /\ adder[f].m_widgets[i].k = "frame"
        /\ \/ adder[f].m_widgets[i].id = f
           \/ f \in Descendants(m_widgets, adder[f].m_widgets[i].id)

\* C1: whenever the widget list handed to a frame's finalize holds the frame
\* itself or a frame that (recursively) contains it, finalize fails with
\* std::invalid_argument.
C1_SelfContainmentRejected ==
    [][\A f \in Frames :
        (ClosesNormally(f) /\ HandsSelfContaining(f)) => error' = "invalid_argument"]_vars

\* C2: when finalize fails the self-containment check, the widget list and
\* the spacer storage of the failing frame and of each of its ancestors are
\* what they were before the call.
C2_FailedFinalizeCommitsNothing ==
    [][\A f \in Frames :
        (ClosesNormally(f) /\ error' = "invalid_argument") =>
            \A g \in Frames :
                (g = f \/ f \in Descendants(m_widgets, g)) =>
                    /\ m_widgets'[g] = m_widgets[g]
                    /\ m_horz_spacers'[g] = m_horz_spacers[g]]_vars

\* a finalize failed for a frame that an ancestor with committed contents holds
C2_Witness ==
    /\ last.op = "destroy" /\ ~last.exc /\ error = "invalid_argument"
    /\ last.log # <<>>
    /\ \E g \in Frames \ {last.f} : last.f \in Descendants(m_widgets, g)

\* C3: an adder that goes out of scope while an exception propagates does
\* nothing and leaves the frames as they are; otherwise it hands its widget
\* list, its spacer storage and its style map to the frame's finalize, once.
C3_AdderEndOfScope ==
    [][\A f \in Frames :
        (adder[f].open /\ last'.op = "destroy" /\ last'.f = f) =>
            IF last'.exc
            THEN last'.handed = <<>> /\ UNCHANGED frame_vars
            ELSE last'.handed = <<[f |-> f, widgets |-> adder[f].m_widgets,
                                   spacers |-> adder[f].m_horz_spacers,
                                   styles |-> adder[f].m_styles]>>]_vars

\* an adder with accumulated widgets and a style map went out of scope during unwinding
C3_Witness ==
    /\ last.op = "destroy" /\ last.exc
    /\ \E i \in DOMAIN last.log : last.log[i].op = "spacer"
    /\ \E i \in DOMAIN last.log : last.log[i].op = "add"

\* the number of add_horizontal_spacer calls among the first n calls
RECURSIVE SpacerCalls(_, _)
SpacerCalls(log, n) ==
    IF n = 0 THEN 0
    ELSE SpacerCalls(log, n - 1) + (IF log[n].op = "spacer" THEN 1 ELSE 0)

\* the widget list of frame f is the calls of log, in order
ListIsCalls(f, log) ==
    /\ Len(m_widgets[f]) = Len(log)
    /\ Len(m_horz_spacers[f].elems) = SpacerCalls(log, Len(log))
    /\ \A i \in DOMAIN log :
        m_widgets[f][i] =
            CASE log[i].op = "add"    -> WidgetPtr(log[i].id)
              [] log[i].op = "sep"    -> SepPtr(f)
              [] log[i].op = "spacer" ->
                    SpacerPtr(f, m_horz_spacers[f].buf, SpacerCalls(log, i))

\* C4: an adder closed on a frame replaces the frame's contents, also when
\* the frame already has some: after the commit the widget list is the calls
\* made on the new adder, in call order, and the spacer storage holds the
\* new adder's spacers only.
C4_AdderReplacesContents ==
    (last.op = "destroy" /\ ~last.exc /\ error = "none")
        => ListIsCalls(last.f, last.log)

\* contents were replaced by new contents that hold none of the old widgets
C4_Witness ==
    /\ last.op = "destroy" /\ ~last.exc /\ error = "none"
    /\ last.prev # <<>>
    /\ last.log # <<>>
    /\ \A i \in DOMAIN last.prev : \A j \in DOMAIN m_widgets[last.f] :
          last.prev[i] # m_widgets[last.f][j]

\* C5: closing an adder that was opened without a style map only commits the
\* widget list and the spacer storage: no padding, size or location of any
\* frame, leaf or spacer changes, and no focus list.
C5_NoStylesNoGeometry ==
    [][\A f \in Frames :
        (ClosesNormally(f) /\ ~adder[f].m_styles.present /\ error' = "none") =>
            /\ m_border' = m_border
            /\ m_padding' = m_padding
            /\ leaf' = leaf
            /\ m_focus_handler' = m_focus_handler
            /\ m_widgets' = [m_widgets EXCEPT ![f] = adder[f].m_widgets]
            /\ m_horz_spacers' = [m_horz_spacers EXCEPT ![f] = adder[f].m_horz_spacers]]_vars

\* an adder without styles committed widgets to a frame that still has no size
C5_Witness ==
    /\ last.op = "destroy" /\ ~last.exc /\ error = "none"
    /\ Len(last.handed) = 1 /\ ~last.handed[1].styles.present
    /\ \E i \in DOMAIN last.log : last.log[i].op = "add"
    /\ \E i \in DOMAIN last.log : last.log[i].op = "spacer"
    /\ m_border[last.f].w = 0

\* ------------------------------------------------------- claims on layout
\* The geometry finalize of frame f ran in the last call, and nothing it
\* reads was changed after it.
LaidOut(f) == ~halted /\ f \in last.finalized

IsSpacer(f, i) == is_horizontal_spacer(State, f, m_widgets[f][i])
IsSep(f, i) == is_line_seperator(f, m_widgets[f][i])
Advance(f, i) == get_widget_advance(State, f, m_widgets[f][i])
XOf(f, i) == LocationOf(State, m_widgets[f][i]).x
YOf(f, i) == LocationOf(State, m_widgets[f][i]).y
\* where a line of the positioning pass starts and where it must end
StartX(f) == widget_start(m_border[f]).x + m_padding[f]
RightLimit(f) == m_border[f].x + m_border[f].w
\* the interior width
Interior(f) == width_available_for_widgets(m_border[f])

\* the maximum of a nonempty set of numbers
MaxOf(S) == CHOOSE m \in S : \A n \in S : n <= m

\* the positioning pass starts a line at widget k
Breaks(f, k) ==
    \/ k = 1
    \/ IsSep(f, k - 1)
    \/ ~IsSep(f, k) /\ XOf(f, k - 1) + Advance(f, k - 1) + Advance(f, k) > RightLimit(f)
\* the height of the line widget j is on, up to and including j
LineHeight(f, j) ==
    LET start == MaxOf({k \in 1 .. j : Breaks(f, k)})
    IN MaxOf({HeightOf(State, m_widgets[f][k]) : k \in start .. j})

\* widget i of f is where the cursor (x0, y0) and the overflow test put it
PlacedFrom(f, i, x0, y0, height0) ==
    IF x0 + Advance(f, i) <= RightLimit(f)
    THEN /\ YOf(f, i) = y0
         /\ ~IsSpacer(f, i) => XOf(f, i) = x0
    ELSE /\ XOf(f, i) = StartX(f)
         /\ YOf(f, i) = y0 + height0 + m_padding[f]

\* three widgets of advance 40 with padding 10 in an interior of width 100
Scenario40(f) ==
    /\ m_padding[f] = px(10)
    /\ Interior(f) = px(100)
    /\ Len(m_widgets[f]) = 3
    /\ \A i \in 1 .. 3 : ~IsSep(f, i) /\ ~IsSpacer(f, i) /\ Advance(f, i) = px(40)

\* C6: in the positioning pass a widget stays on the current line iff
\* x + advance <= right_limit; otherwise it is the first widget of a new
\* line, at the interior start x and at y = previous line's y + previous
\* line height + padding. Three widgets of advance 40 with padding 10 in an
\* interior of width 100: two on line 1, the third starts line 2 at the
\* start x.
C6_OverflowWrap ==
    \A f \in Frames : LaidOut(f) =>
        /\ \A i \in DOMAIN m_widgets[f] :
              \/ IsSep(f, i)
              \/ i = 1 /\ PlacedFrom(f, i, StartX(f),
                                     widget_start(m_border[f]).y + m_padding[f], 0)
              \/ i > 1 /\ IsSep(f, i - 1)
              \/ i > 1 /\ ~IsSep(f, i - 1)
                   /\ PlacedFrom(f, i, XOf(f, i - 1) + Advance(f, i - 1),
                                 YOf(f, i - 1), LineHeight(f, i - 1))
        /\ Scenario40(f) =>
              /\ XOf(f, 1) = StartX(f)
              /\ XOf(f, 2) = StartX(f) + px(40)
              /\ YOf(f, 2) = YOf(f, 1)
              /\ XOf(f, 3) = StartX(f)
              /\ YOf(f, 3) = YOf(f, 1) + LineHeight(f, 2) + px(10)

\* the scenario of C6 was laid out, and the second line is lower by the
\* height of the higher of the two widgets of the first line
C6_Witness ==
    /\ LaidOut("F1") /\ Scenario40("F1")
    /\ YOf("F1", 3) > YOf("F1", 1) + px(10) + HeightOf(State, m_widgets["F1"][2])

NoSeps(f) == \A i \in DOMAIN m_widgets[f] : ~IsSep(f, i)
RECURSIVE TotalAdvance(_, _)
TotalAdvance(f, n) == IF n = 0 THEN 0 ELSE TotalAdvance(f, n - 1) + Advance(f, n)

\* C7 as stated: for every padding >= 0 and every widget list without line
\* separators whose total advance is at most the interior width, all widgets
\* get the y of the interior top-left corner.
C7_OneLineAtInteriorTop ==
    \A f \in Frames :
        (LaidOut(f) /\ NoSeps(f) /\ TotalAdvance(f, Len(m_widgets[f])) <= Interior(f)) =>
            \A i \in DOMAIN m_widgets[f] : YOf(f, i) = widget_start(m_border[f]).y

\* C7: for every padding >= 0 and every widget list without line separators
\* whose total advance is at most the distance from the start x of a line
\* to the right edge of the frame, the geometry finalize makes one line: all
\* widgets get the same y, the y of the interior top-left corner plus the
\* padding.
C7_OneLineBelowPadding ==
    \A f \in Frames :
        (LaidOut(f) /\ NoSeps(f)
            /\ TotalAdvance(f, Len(m_widgets[f])) <= RightLimit(f) - StartX(f)) =>
            \A i \in DOMAIN m_widgets[f] :
                YOf(f, i) = widget_start(m_border[f]).y + m_padding[f]

\* three widgets with padding in between were laid out on one line
C7_Witness ==
    /\ LaidOut("F1") /\ NoSeps("F1")
    /\ Len(m_widgets["F1"]) = 3
    /\ m_padding["F1"] > 0
    /\ TotalAdvance("F1", 3) <= RightLimit("F1") - StartX("F1")
    /\ \E i \in 1 .. 3 : IsSpacer("F1", i)

\* the lines of the spacer pass of frame f
DistLines(f) == spacer_lines(State, f, 1, 0, 0, 1, FALSE)
SpacersOn(f, ln) == {k \in ln.beg .. (ln.end_ - 1) : IsSpacer(f, k)}
\* the sum of the advances of the widgets lo .. hi that are no spacers
RECURSIVE NonSpacerAdvance(_, _, _)
NonSpacerAdvance(f, lo, hi) ==
    IF hi < lo THEN 0
    ELSE NonSpacerAdvance(f, lo, hi - 1) + (IF IsSpacer(f, hi) THEN 0 ELSE Advance(f, hi))
LineAdvance(f, ln) == NonSpacerAdvance(f, ln.beg, ln.end_ - 1)
\* spacer k comes directly after a widget that left its padding behind: a
\* widget that neither opened the line by overflow nor is a line seperator
AfterPadding(f, ln, k) ==
    /\ k > ln.beg
    /\ ~IsSpacer(f, k - 1)
    /\ ~(k - 1 = ln.beg /\ ln.broke)

\* C8 as stated: a spacer that is the only spacer on its line has width
\* interior width - advances of the other widgets of the line, floored at
\* zero, wherever it sits on the line.
C8_SingleSpacerLeftover ==
    \A f \in Frames : LaidOut(f) =>
        \A n \in DOMAIN DistLines(f) :
            LET ln == DistLines(f)[n]
            IN Cardinality(SpacersOn(f, ln)) = 1 =>
                   \A k \in SpacersOn(f, ln) :
                       WidthOf(State, m_widgets[f][k]) =
                           Max(Interior(f) - LineAdvance(f, ln), 0)

\* C8: a spacer that is the only spacer on its line of the spacer pass has
\* width max(interior width - advances of the other widgets of the line, 0)
\* if it comes after a widget of the line that did not open the line by
\* overflow; if it is first on the line, or comes directly after the line
\* separator or the widget that overflowed onto the line, it is narrower by
\* the padding: max(max(interior width - advances, 0) - padding, 0).
C8_SingleSpacerWidth ==
    \A f \in Frames : LaidOut(f) =>
        \A n \in DOMAIN DistLines(f) :
            LET ln == DistLines(f)[n]
                leftover == Max(Interior(f) - LineAdvance(f, ln), 0)
            IN Cardinality(SpacersOn(f, ln)) = 1 =>
                   \A k \in SpacersOn(f, ln) :
                       WidthOf(State, m_widgets[f][k]) =
                           IF AfterPadding(f, ln, k) THEN leftover
                           ELSE Max(leftover - m_padding[f], 0)

\* a spacer between two widgets took all the line left over, and a spacer
\* that is first on its line took the padding less
C8_Witness ==
    /\ LaidOut("F1") /\ LaidOut("F2")
    /\ m_padding["F1"] > 0
    /\ Len(m_widgets["F1"]) = 3
    /\ ~IsSpacer("F1", 1) /\ IsSpacer("F1", 2) /\ m_widgets["F1"][3] = FramePtr("F2")
    /\ WidthOf(State, m_widgets["F1"][2]) > 0
    /\ Len(m_widgets["F2"]) = 2 /\ IsSpacer("F2", 1)
    /\ WidthOf(State, m_widgets["F2"][1]) > 0

\* what a line uses: the advances of its widgets, less the padding each
\* spacer takes back from the widget before it
UsedWidth(f, ln) ==
    LineAdvance(f, ln)
        - m_padding[f] * Cardinality({k \in SpacersOn(f, ln) : AfterPadding(f, ln, k)})

C10_FinalizeIdempotent ==
    \A f \in Frames : LaidOut(f) =>
        LET again == finalize_widgets(State, f, 1)
        IN /\ ~again.crash
           /\ again.m_border = m_border
           /\ again.leaf = leaf
           /\ again.m_horz_spacers = m_horz_spacers
           /\ again.m_widgets = m_widgets

\* a frame that sized itself, with a spacer and a nested frame with a spacer
\* of its own, was laid out
C10_Witness ==
    /\ LaidOut("F1") /\ LaidOut("F2")
    /\ m_border["F1"].w \notin {0, px(90), px(95), px(110)}
    /\ \E i \in DOMAIN m_widgets["F1"] : m_widgets["F1"][i] = FramePtr("F2")
    /\ \E i \in DOMAIN m_widgets["F1"] : IsSpacer("F1", i)
    /\ \E i \in DOMAIN m_widgets["F2"] :
          IsSpacer("F2", i) /\ WidthOf(State, m_widgets["F2"][i]) > 0

\* every widget of frame f that is no line seperator lies inside the outer
\* rectangle of f
Enclosed(f) ==
    \A i \in DOMAIN m_widgets[f] :
        ~IsSep(f, i) =>
            /\ m_border[f].x <= XOf(f, i)
            /\ XOf(f, i) + WidthOf(State, m_widgets[f][i]) <= m_border[f].x + m_border[f].w
            /\ m_border[f].y <= YOf(f, i)
            /\ YOf(f, i) + HeightOf(State, m_widgets[f][i]) <= m_border[f].y + m_border[f].h

\* C11: the fit size encloses the content: after the geometry finalize of a
\* frame whose width or height was unset, every widget of the frame that is
\* no line seperator lies inside the frame's outer rectangle.
C11_FitEnclosesContent ==
    [][\A f \in Frames :
          ((m_border[f].w = 0 \/ m_border[f].h = 0) /\ f \in last'.finalized /\ ~halted')
              => Enclosed(f)']_vars

\* C12: for a frame with no widgets the fit size is the title's width
\* accommodation plus 2 * padding wide and widget_start().y - location().y
\* high, without the 3 * padding correction; an empty frame whose size is
\* unset has that size after its geometry finalize.
C12_EmptyFrameFitSize ==
    [][\A f \in Frames :
          (m_widgets[f] = <<>> /\ f \in last'.finalized /\ ~halted') =>
              /\ compute_size_to_fit(State, f) =
                    [x |-> title_width_accommodation(m_border[f]) + 2 * m_padding[f],
                     y |-> widget_start(m_border[f]).y - m_border[f].y]
              /\ (m_border[f].w = 0 \/ m_border[f].h = 0) =>
                    /\ m_border'[f].w = title_width_accommodation(m_border[f]) + 2 * m_padding[f]
                    /\ m_border'[f].h = widget_start(m_border[f]).y - m_border[f].y]_vars

\* an empty frame with a title and a padding has sized itself
C12_Witness ==
    \E f \in last.finalized :
        /\ ~halted
        /\ m_widgets[f] = <<>>
        /\ m_padding[f] > 0
        /\ m_border[f].tw > 0 /\ m_border[f].th > 0
        /\ m_border[f].w = m_border[f].tw + 2 * m_padding[f]
        /\ m_border[f].h = m_border[f].bs + m_border[f].th

\* what frame g handed the event to in the last call, in order
HandedOn(g) == SelectSeq(last.recv, LAMBDA r : r.by = g)

\* the visible widgets of frame g, in the order of its list
VisibleChildren(g) == SelectSeq(m_widgets[g], LAMBDA ptr : is_visible(State, ptr))

C14_SizesNeverNegative ==
    \A f \in Frames : m_border[f].w >= 0 /\ m_border[f].h >= 0

\* the width a negative padding gives a frame that sizes itself: an empty
\* frame with padding -10 has been given an event that updates the geometry
C14_NegativePaddingWidth ==
    \E f \in last.finalized :
        /\ ~halted
        /\ m_padding[f] < 0
        /\ m_border[f].w < 0

\* C15: ProgressBar::set_fill_amount with a value outside [0, 1] fails with a
\* range error and leaves the stored fill amount and the bar's geometry as
\* they were; a value inside [0, 1] is stored.
C15_FillAmountRange ==
    [][last'.op = "ProgressBar::set_fill_amount" =>
          IF last'.args[1] < 0 \/ last'.args[1] > Full
          THEN error' = "out_of_range" /\ widget' = widget
          ELSE error' = "none" /\ widget'.m_fill_amount = last'.args[1]]_vars

\* a half-filled bar with a size was asked for a fill amount of 3/2
C15_Witness ==
    /\ last.op = "ProgressBar::set_fill_amount"
    /\ last.args = <<3 * (Full \div 2)>>
    /\ error = "out_of_range"
    /\ widget.m_fill_amount = Full \div 2
    /\ widget.m_outer.w > 0
    /\ widget.m_inner_front.w = widget.m_outer.w \div 2

\* the calls that set a size, and whether a call has an argument that is
\* negative and not the sentinel
SizingOps ==
    {"TextArea::set_size", "TextArea::set_width", "TextArea::set_height",
     "TextArea::set_max_width", "TextArea::set_max_height",
     "Button::set_size", "ProgressBar::set_size"}
NegativeArg(args) ==
    \E i \in DOMAIN args : args[i] < 0 /\ args[i] # k_unassigned_size

\* C16: a sizing operation of a widget (TextArea::set_size, set_width,
\* set_height, set_max_width, set_max_height, Button::set_size,
\* ProgressBar::set_size) called with a negative width or height that is not
\* the unassigned sentinel raises InvalidArgument; non-negative values and
\* the sentinel are accepted.
C16_NegativeSizeRejected ==
    [][last'.op \in SizingOps =>
          IF NegativeArg(last'.args) THEN error' = "invalid_argument"
                                     ELSE error' = "none"]_vars

\* the part of C16 that is about TextArea
C16_TextAreaOnly ==
    [][(last'.op \in SizingOps /\ widget.class = "TextArea") =>
          IF NegativeArg(last'.args) THEN error' = "invalid_argument"
                                     ELSE error' = "none"]_vars

\* a ProgressBar took a negative width
C16_ProgressBarNegative ==
    /\ last.op = "ProgressBar::set_size" /\ error = "none"
    /\ widget.m_outer.w < 0

\* a Button refused a width of zero, or the sentinel
C16_ButtonZero ==
    /\ last.op = "Button::set_size" /\ error = "invalid_argument"
    /\ ~NegativeArg(last.args)

\* C17: after any calls of add, add_horizontal_spacer and add_line_seperator
\* on one adder, also when the spacer storage has moved, the k-th spacer
\* entry of the adder's list refers to the k-th slot of the current storage,
\* the other entries are the widgets and line seperators as they were added,
\* the order of the list is the order of the calls, and no entry refers to a
\* former storage.
C17_SpacerPointersRevalidated ==
    \A f \in Frames :
        adder[f].open =>
            /\ Len(adder[f].m_widgets) = Len(calls[f])
            /\ Len(adder[f].m_horz_spacers.elems) = SpacerCalls(calls[f], Len(calls[f]))
            /\ \A i \in DOMAIN calls[f] :
                  adder[f].m_widgets[i] =
                      CASE calls[f][i].op = "add"    -> WidgetPtr(calls[f][i].id)
                        [] calls[f][i].op = "sep"    -> SepPtr(adder[f].m_the_line_sep)
                        [] calls[f][i].op = "spacer" ->
                              SpacerPtr(f, adder[f].m_horz_spacers.buf,
                                        SpacerCalls(calls[f], i))

\* the storage of an adder has moved twice, with a widget between its spacers
C17_Witness ==
    \E f \in Frames :
        /\ adder[f].open
        /\ Len(adder[f].m_horz_spacers.elems) = 4
        /\ adder[f].m_horz_spacers.cap = 7
        /\ \E i \in DOMAIN calls[f] :
              /\ calls[f][i].op = "add"
              /\ \E j \in 1 .. (i - 1) : calls[f][j].op = "spacer"
              /\ \E j \in (i + 1) .. Len(calls[f]) : calls[f][j].op = "spacer"

\* the spacer pass starts a line at widget k: k overflowed, or follows a line
\* seperator
DistBreaks(f, k) ==
    \/ k = 1
    \/ IsSep(f, k - 1)
    \/ ~IsSep(f, k) /\ \E n \in DOMAIN DistLines(f) : DistLines(f)[n].beg = k

\* C18: the positioning pass and the spacer pass break the list of a frame
\* into lines at the same widgets: a widget starts a new line in one pass iff
\* it starts a new line in the other.
C18_SameLineBreaks ==
    \A f \in Frames : LaidOut(f) =>
        \A k \in DOMAIN m_widgets[f] :
            ~IsSep(f, k) => (Breaks(f, k) <=> DistBreaks(f, k))

\* the steps of a geometry finalize in the order of the code, and in the
\* order that puts the spacer pass after the positioning pass
CodeOrder == <<"auto_resize", "border", "spacers", "positioning", "children", "focus">>
PositioningFirst == <<"auto_resize", "border", "positioning", "spacers", "children", "focus">>

\* the steps of geometry finalizes that frame g took in the last call
FinalizeSteps(g) ==
    SelectSeq(last.steps, LAMBDA r : r.by = g /\ r.step \in Range(CodeOrder))

\* the frames of the list of frame g
ChildFrames(g) == {j \in DOMAIN m_widgets[g] : m_widgets[g][j].k = "frame"}

\* in the last call every geometry finalize of a frame took the steps of
\* order, one after the other, and the child frames' own finalizes, and
\* nothing else, lie between the parent's steps "children" and "focus"
StepsInOrder(order) ==
    (last.op = "process_event" /\ ~halted) =>
        /\ \A g \in Frames :
              /\ g \in last.finalized => FinalizeSteps(g) # <<>>
              /\ Len(FinalizeSteps(g)) % Len(order) = 0
              /\ \A i \in DOMAIN FinalizeSteps(g) :
                    FinalizeSteps(g)[i].step = order[((i - 1) % Len(order)) + 1]
        /\ \A i \in DOMAIN last.steps :
              last.steps[i].step = "children" =>
                  \E j \in (i + 1) .. Len(last.steps) :
                      /\ last.steps[j] = [last.steps[i] EXCEPT !.step = "focus"]
                      /\ \A k \in (i + 1) .. (j - 1) :
                            /\ last.steps[k].by # last.steps[i].by
                            /\ FramePtr(last.steps[k].by) \in Range(m_widgets[last.steps[i].by])
                      /\ Cardinality({k \in (i + 1) .. (j - 1) : last.steps[k].step = "focus"})
                            = Cardinality(ChildFrames(last.steps[i].by))

AutoResizeSteps(steps, g) ==
    SelectSeq(steps, LAMBDA r : r.by = g /\ r.step \in {"issue_auto_resize", "size_self"})

\* rounds of: each widget of the list ws asked in order, then the frame's own
\* sizing
AskedThenSized(steps, ws) ==
    /\ Len(steps) % (Len(ws) + 1) = 0
    /\ \A i \in DOMAIN steps :
          IF ((i - 1) % (Len(ws) + 1)) + 1 <= Len(ws)
          THEN /\ steps[i].step = "issue_auto_resize"
               /\ steps[i].ptr = ws[((i - 1) % (Len(ws) + 1)) + 1]
          ELSE steps[i].step = "size_self"

\* the border b has the size size_
Sized(b, size_) == b.w = size_.x /\ b.h = size_.y

\* C20: in the auto-resize pass every child is asked to auto-size itself
\* before the frame sizes itself; the frame then adopts its fit size iff its
\* width or its height is unset (zero), and a frame whose width and height
\* are both set keeps its size.
C20_AutoResize ==
    [][(last'.op = "process_event" /\ ~halted') =>
          \A g \in Frames :
              /\ AskedThenSized(AutoResizeSteps(last'.steps, g), m_widgets[g])
              /\ g \in last'.finalized =>
                    /\ AutoResizeSteps(last'.steps, g) # <<>>
                    /\ IF m_border[g].w = 0 \/ m_border[g].h = 0
                       THEN Sized(m_border'[g], compute_size_to_fit(StateAfter, g))
                       ELSE /\ m_border'[g].w = m_border[g].w
                            /\ m_border'[g].h = m_border[g].h]_vars

\* a frame has sized itself around a nested frame that has sized itself
\* around its widget
C20_Witness ==
    /\ last.op = "process_event" /\ ~halted
    /\ \E g \in last.finalized : \E i \in ChildFrames(g) :
          /\ m_widgets[m_widgets[g][i].id] # <<>>
          /\ m_border[m_widgets[g][i].id].h = compute_size_to_fit(State, m_widgets[g][i].id).y
          /\ m_border[g].h = compute_size_to_fit(State, g).y
          /\ m_border[g].h > m_border[m_widgets[g][i].id].h

\* the y of the cursor of the positioning pass of frame f after the first k
\* entries of the list: a line seperator moves it down by the height of the
\* line before it and the padding
RECURSIVE CursorY(_, _)
CursorY(f, k) ==
    IF k = 0 THEN widget_start(m_border[f]).y + m_padding[f]
    ELSE IF IsSep(f, k)
    THEN CursorY(f, k - 1)
             + (IF k = 1 \/ IsSep(f, k - 1) THEN 0 ELSE LineHeight(f, k - 1))
             + m_padding[f]
    ELSE YOf(f, k)

\* C21: in the positioning pass a line seperator always breaks the line: the
\* cursor goes down by the height of the line and the padding and back to
\* the start x, the height of the line starts at 0 again, the seperator is
\* given no location and takes no room, and the widget after it is placed at
\* the start x of the new line (one padding lower still if it overflows the
\* empty line).
C21_SeperatorBreaksLine ==
    \A f \in Frames : LaidOut(f) =>
        /\ SepPtr(f) \notin last.located
        /\ \A k \in DOMAIN m_widgets[f] :
              (IsSep(f, k) /\ k < Len(m_widgets[f]) /\ ~IsSep(f, k + 1)) =>
                  /\ XOf(f, k + 1) = StartX(f)
                  /\ YOf(f, k + 1) =
                        CursorY(f, k)
                            + (IF StartX(f) + Advance(f, k + 1) > RightLimit(f)
                               THEN m_padding[f] ELSE 0)

\* a widget, a line seperator and a lower widget were laid out with a
\* padding: the second widget is at the start x, below the first by the
\* first's height and the padding
C21_Witness ==
    /\ LaidOut("F1")
    /\ m_padding["F1"] > 0
    /\ Len(m_widgets["F1"]) = 3
    /\ ~IsSep("F1", 1) /\ ~IsSpacer("F1", 1) /\ IsSep("F1", 2)
    /\ ~IsSep("F1", 3) /\ ~IsSpacer("F1", 3)
    /\ last.located = {m_widgets["F1"][1], m_widgets["F1"][3]}
    /\ XOf("F1", 3) = XOf("F1", 1)
    /\ YOf("F1", 3) = YOf("F1", 1) + HeightOf(State, m_widgets["F1"][1]) + m_padding["F1"]

\* entry k of the list of frame f starts a line: of the positioning pass
\* (pos), or of the fit size, which ends a line at a line seperator only
StartsLine(f, k, pos) ==
    /\ ~IsSep(f, k)
    /\ IF pos THEN Breaks(f, k) ELSE (k = 1 \/ IsSep(f, k - 1))

\* the last entry of the line that starts at entry k
RECURSIVE LineEnd(_, _, _)
LineEnd(f, k, pos) ==
    IF k = Len(m_widgets[f]) \/ IsSep(f, k + 1) \/ StartsLine(f, k + 1, pos)
    THEN k
    ELSE LineEnd(f, k + 1, pos)

\* what the entries a .. b add to line_width: the advance of each widget, less
\* the padding for a widget that follows a spacer; spacers add nothing
RECURSIVE FitLineWidth(_, _, _)
FitLineWidth(f, a, b) ==
    IF b < a THEN 0
    ELSE FitLineWidth(f, a, b - 1)
             + (IF IsSpacer(f, b) THEN 0
                ELSE Advance(f, b)
                         - (IF b > a /\ IsSpacer(f, b - 1) THEN m_padding[f] ELSE 0))

\* line_height of the entries a .. b
FitLineHeight(f, a, b) ==
    MaxOf({0} \cup {HeightOf(State, m_widgets[f][j]) : j \in a .. b})

\* the widest line
FitWidest(f, pos) ==
    MaxOf({0} \cup {FitLineWidth(f, k, LineEnd(f, k, pos)) :
                        k \in {j \in DOMAIN m_widgets[f] : StartsLine(f, j, pos)}})

\* the sum over the lines among the first n entries of line_height + padding;
\* a line seperator that ends a line without entries adds the padding. With
\* counted, a last line of no width is left out (Frame.cpp:386).
RECURSIVE FitHeights(_, _, _, _)
FitHeights(f, n, pos, counted) ==
    IF n = 0 THEN 0
    ELSE FitHeights(f, n - 1, pos, counted)
             + (IF StartsLine(f, n, pos)
                THEN IF /\ counted
                        /\ LineEnd(f, n, pos) = Len(m_widgets[f])
                        /\ FitLineWidth(f, n, LineEnd(f, n, pos)) = 0
                     THEN 0
                     ELSE FitLineHeight(f, n, LineEnd(f, n, pos)) + m_padding[f]
                ELSE IF IsSep(f, n) /\ (n = 1 \/ IsSep(f, n - 1))
                THEN m_padding[f]
                ELSE 0)

\* the fit size as a sum over lines
FitOverLines(f, pos, counted) ==
    LET correction == IF m_widgets[f] # <<>> THEN 3 * m_padding[f] ELSE 0
    IN [x |-> Max(FitWidest(f, pos),
                  title_width_accommodation(m_border[f]) + 2 * m_padding[f])
                  + correction,
        y |-> FitHeights(f, Len(m_widgets[f]), pos, counted)
                  + (widget_start(m_border[f]).y - m_border[f].y)
                  + correction]

\* frame f has the fit size of the lines the positioning pass makes
FitOfPositionedLines(f) ==
    /\ \A k \in DOMAIN m_widgets[f] : StartsLine(f, k, TRUE) <=> StartsLine(f, k, FALSE)
    /\ Sized(m_border[f], FitOverLines(f, TRUE, FALSE))

\* frame f has the fit size of the lines that line seperators end
FitOfSeperatedLines(f) ==
    /\ Sized(m_border[f], FitOverLines(f, FALSE, TRUE))
    /\ compute_size_to_fit(State, f) = FitOverLines(f, FALSE, TRUE)

\* C22: compute_size_to_fit splits the list into lines as the positioning
\* pass does, and the fit size is max(widest line, title accommodation +
\* 2 * padding) wide and the sum over the lines of line_height + padding plus
\* the title's interior offset high, each plus 3 * padding if the frame has
\* widgets: a frame that has sized itself has that size for the lines its
\* widgets were placed on.
C22_FitFollowsPositioning ==
    [][\A f \in Frames :
          ((m_border[f].w = 0 \/ m_border[f].h = 0) /\ f \in last'.finalized /\ ~halted')
              => FitOfPositionedLines(f)']_vars

\* the fit size is that sum over the lines that line seperators end, a last
\* line without width left out
C22_FitOverSeperatedLines ==
    [][\A f \in Frames :
          ((m_border[f].w = 0 \/ m_border[f].h = 0) /\ f \in last'.finalized /\ ~halted')
              => FitOfSeperatedLines(f)']_vars

\* the frames with frame c sized to its own fit size
WithFit(st, c) ==
    With(compute_size_to_fit(st, c), LAMBDA gv : set_size(st, c, gv.x, gv.y))

\* this step is the first event of frame g, whose hook has left the frames of
\* its list without a size, and g sizes itself
SizesOverUnset(g) ==
    /\ last.op = "none"
    /\ last'.op = "process_event" /\ last'.f = g /\ last'.args = <<"unset_members">>
    /\ ~halted' /\ g \in last'.finalized
    /\ m_border[g].w = 0 /\ m_border[g].h = 0

\* C23: in compute_size_to_fit a child frame whose width and height are both
\* zero counts with its own fit size, width and height: the size the frame
\* adopts is the fit size it would have with the child at that size.
C23_UnsetChildCountsWithFit ==
    [][\A g \in Frames :
          SizesOverUnset(g) =>
              \A i \in ChildFrames(g) :
                  (m_border[m_widgets[g][i].id].w = 0 /\ m_border[m_widgets[g][i].id].h = 0)
                      => Sized(m_border'[g],
                               compute_size_to_fit(WithFit(State, m_widgets[g][i].id), g))]_vars

\* a frame has sized itself over a child frame with a widget and no size, and
\* is narrower than the child
C23_WidthLeftOut ==
    /\ last.op = "process_event" /\ last.args = <<"unset_members">> /\ ~halted
    /\ last.f \in last.finalized
    /\ \E i \in ChildFrames(last.f) :
          /\ m_widgets[m_widgets[last.f][i].id] # <<>>
          /\ m_border[last.f].w < m_border[m_widgets[last.f][i].id].w

\* where in the steps of the last call the process_event of frame g called
\* the geometry finalize
FinalizeCalls(g) ==
    {i \in DOMAIN last.steps :
        last.steps[i].by = g /\ last.steps[i].step = "finalize_widgets"}

\* C24: in Frame::process_event the geometry finalize is run iff the border
\* signals that the geometry must be updated, then exactly once and only
\* after the children and the focus handler were given the event in that
\* call, and also when the border asked to skip the other events.
C24_UpdateAfterDispatch ==
    (last.op = "process_event" /\ ~halted) =>
        \A g \in Frames :
            IF HandedOn(g) = <<>> THEN FinalizeCalls(g) = {}
            ELSE /\ Cardinality({i \in DOMAIN HandedOn(g) : HandedOn(g)[i].what = "border"}) = 1
                 /\ IF HandedOn(g)[1].gv.should_update_geometry
                    THEN /\ Cardinality(FinalizeCalls(g)) = 1
                         /\ g \in last.finalized
                         /\ \A i \in FinalizeCalls(g) :
                               /\ \A n \in DOMAIN HandedOn(g) : HandedOn(g)[n].at < i
                               /\ \E j \in (i + 1) .. Len(last.steps) :
                                     /\ last.steps[j].by = g
                                     /\ last.steps[j].step = "focus"
                    ELSE FinalizeCalls(g) = {}

\* a border asked to skip the other events and to update the geometry, and
\* the frame, with widgets, was finalized; and a frame was finalized after it
\* had handed the event to a nested frame that was finalized for itself
C24_Witness ==
    /\ last.op = "process_event" /\ ~halted
    /\ \E g \in Frames :
          /\ m_widgets[g] # <<>>
          /\ Len(HandedOn(g)) = 1
          /\ HandedOn(g)[1].gv.skip_other_events
          /\ FinalizeCalls(g) # {}
    /\ \E g \in Frames : \E i \in FinalizeCalls(g) :
          /\ Len(HandedOn(g)) > 2
          /\ HandedOn(g)[Len(HandedOn(g))].at > 0
          /\ HandedOn(g)[Len(HandedOn(g))].at < i

\* the focus widgets among the entries i, i + 1, ... of the list of frame f
\* and below them, depth first in the order of the lists, n levels deep
RECURSIVE FocusFrom(_, _, _)
FocusFrom(f, i, n) ==
    IF n = 0 \/ i > Len(m_widgets[f]) THEN <<>>
    ELSE (CASE m_widgets[f][i].k = "leaf" /\ m_widgets[f][i].id \in FocusLeaves
                 -> <<m_widgets[f][i].id>>
            [] m_widgets[f][i].k = "frame" -> FocusFrom(m_widgets[f][i].id, 1, n - 1)
            [] OTHER -> <<>>)
         \o FocusFrom(f, i + 1, n)

\* the focus-capable descendants of frame f, depth first
FocusDescendants(f) == FocusFrom(f, 1, Cardinality(Frames))

\* foc has for frame f its focus-capable descendants, each once, and nothing
\* for the frames inside f
OwnsFocus(foc, f) ==
    /\ foc[f] = FocusDescendants(f)
    /\ \A i, j \in DOMAIN foc[f] : i # j => foc[f][i] # foc[f][j]
    /\ \A c \in Descendants(m_widgets, f) : foc[c] = <<>>

FocusOwnedBy(f) ==
    /\ \A c \in Descendants(m_widgets, f) : m_focus_handler[c] = <<>>
    /\ \A g, h \in Frames :
          g # h => Range(m_focus_handler[g]) \cap Range(m_focus_handler[h]) = {}

\* C26: focus ownership is stable under events: once the outermost frame has
\* been finalized, every process_event on it, also one for which the border
\* of a nested frame signals that the geometry must be updated, leaves the
\* focus list of every nested frame empty, and no focus widget in the focus
\* lists of two frames.
C26_FocusOwnershipStable ==
    [][\A f \in Frames :
          (LaidOut(f) /\ FocusOwnedBy(f)
              /\ last'.op = "process_event" /\ last'.f = f /\ ~halted')
              => FocusOwnedBy(f)']_vars

\* a focus widget is in the focus list of a nested frame and in the focus
\* list of the frame around it
C26_SharedFocusWidget ==
    /\ ~halted
    /\ \E f \in Frames : \E c \in Descendants(m_widgets, f) :
          /\ m_focus_handler[c] # <<>>
          /\ Range(m_focus_handler[c]) \subseteq Range(m_focus_handler[f])

\* C27: in every state the focus list of a frame holds only widgets that are
\* descendants of the frame: once the contents were replaced through a new
\* adder, with or without a style map, no widget of the former contents is
\* left in the focus list.
C27_FocusListWithinContents ==
    ~halted =>
        \A f \in Frames : Range(m_focus_handler[f]) \subseteq Range(FocusDescendants(f))

\* the contents of a frame were replaced through an adder with a style map,
\* and the focus list of the frame is that of the new contents
C27_ReplacedWithStyles ==
    /\ last.op = "destroy" /\ ~last.exc /\ error = "none" /\ ~halted
    /\ Len(last.handed) = 1 /\ last.handed[1].styles.present
    /\ LeafPtr("W1") \in Range(last.prev)
    /\ LeafPtr("W1") \notin Range(m_widgets[last.f])
    /\ m_focus_handler[last.f] = <<>>

\* C28: for a padding >= 0, after the positioning pass two consecutive
\* widgets of one line do not overlap horizontally: each widget, spacer or
\* not, is at x >= the x of the widget before it + that widget's width, also
\* when spacers follow one another.
C28_NoHorizontalOverlap ==
    \A f \in Frames :
        (LaidOut(f) /\ m_padding[f] >= 0) =>
            \A k \in DOMAIN m_widgets[f] :
                (k > 1 /\ ~IsSep(f, k) /\ ~Breaks(f, k)) =>
                    XOf(f, k) >= XOf(f, k - 1) + WidthOf(State, m_widgets[f][k - 1])

\* the same for the widgets that do not follow a spacer as a spacer
C28_ButSpacerAfterSpacer ==
    \A f \in Frames :
        (LaidOut(f) /\ m_padding[f] >= 0) =>
            \A k \in DOMAIN m_widgets[f] :
                (k > 1 /\ ~IsSep(f, k) /\ ~Breaks(f, k)
                    /\ ~(IsSpacer(f, k) /\ IsSpacer(f, k - 1))) =>
                    XOf(f, k) >= XOf(f, k - 1) + WidthOf(State, m_widgets[f][k - 1])

\* the second of two spacers begins one padding left of the end of the first
C28_SpacersOverlap ==
    \E f \in Frames :
        /\ LaidOut(f) /\ m_padding[f] > 0
        /\ Len(m_widgets[f]) = 3
        /\ ~IsSpacer(f, 1) /\ IsSpacer(f, 2) /\ IsSpacer(f, 3)
        /\ WidthOf(State, m_widgets[f][2]) > m_padding[f]
        /\ YOf(f, 3) = YOf(f, 2)
        /\ XOf(f, 3) = XOf(f, 2) + WidthOf(State, m_widgets[f][2]) - m_padding[f]

\* the y of the cursor of the positioning pass where the line of widget k of
\* frame f starts: the first line starts one padding below the interior's
\* top, a line after a line seperator where the seperator left the cursor,
\* and a line after a wrap below the line before it by that line's height
\* and the padding
LineStartY(f, k) ==
    IF k = 1 THEN CursorY(f, 0)
    ELSE IF IsSep(f, k - 1) THEN CursorY(f, k - 1)
    ELSE YOf(f, k - 1) + LineHeight(f, k - 1) + m_padding[f]

\* widget k of frame f is the first of the frame or the first after a line
\* seperator, and its advance alone exceeds the right limit
OverflowsAlone(f, k) ==
    /\ ~IsSep(f, k)
    /\ k = 1 \/ IsSep(f, k - 1)
    /\ StartX(f) + Advance(f, k) > RightLimit(f)

\* C29: overflow wrapping never creates an empty line: a widget that is the
\* first on its line (the first of the frame, the first after a line
\* seperator or after a wrap) is placed at the start cursor of that line
\* without a further line advance, also when its advance alone exceeds the
\* right limit.
C29_NoEmptyLine ==
    \A f \in Frames : LaidOut(f) =>
        \A k \in DOMAIN m_widgets[f] :
            (~IsSep(f, k) /\ Breaks(f, k)) =>
                /\ XOf(f, k) = StartX(f)
                /\ YOf(f, k) = LineStartY(f, k)

\* the first widget of a line is at the start x, and at the start cursor of
\* its line unless it overflows the line alone: then it is one padding lower
C29_OneAdvanceMore ==
    \A f \in Frames : LaidOut(f) =>
        \A k \in DOMAIN m_widgets[f] :
            (~IsSep(f, k) /\ Breaks(f, k)) =>
                /\ XOf(f, k) = StartX(f)
                /\ YOf(f, k) = LineStartY(f, k)
                                  + (IF OverflowsAlone(f, k) THEN m_padding[f] ELSE 0)

\* the only widget of a frame with a padding is wider than the frame: it is
\* placed two paddings below the interior's top
C29_EmptyFirstLine ==
    /\ LaidOut("F1")
    /\ m_padding["F1"] > 0
    /\ Len(m_widgets["F1"]) = 1
    /\ OverflowsAlone("F1", 1)
    /\ XOf("F1", 1) = StartX("F1")
    /\ YOf("F1", 1) = widget_start(m_border["F1"]).y + 2 * m_padding["F1"]

====
